---- MODULE Spec2Model ----
(***************************************************************************)
(* Model of the Nansen fresh-wallet scanner.                               *)
(*                                                                         *)
(*   Spec         the scan orchestrator (FreshWalletScanner): start, stop, *)
(*                cron ticks, manual scans, the searches of each scan.     *)
(*   MergeSpec    one performScan: its two searches settle, the results    *)
(*                are merged, deduplicated and ranked.                     *)
(*   GatewaySpec  the rate-limited, retrying API client (NansenApiClient). *)
(*   VerifySpec   the token path of FreshWalletService for one token: the  *)
(*                candidate filter and the freshness verification.         *)
(*   FilterSpec   the same path over transfers of every type, label and    *)
(*                sender, to a wallet without history.                     *)
(*   CacheSpec    CacheService: get and getOrSet from two flows.           *)
(*   ResolveSpec  token resolution (findTokensForTickers), call after call.*)
(*   StartupSpec  configuration loading and Application start-up, up to    *)
(*                the first scans.                                         *)
(*   WindowSpec   the scheduled scans on a wall clock and the transfer     *)
(*                window each of them asks for.                            *)
(*   SearchSpec   findFreshWallets over the resolved tokens: pagination,   *)
(*                per-token failure, the merge into the scan result.       *)
(*   HistorySpec  the token path for a recipient whose transaction history *)
(*                runs past one page of records.                           *)
(*   ScanSpec     one scan from the upstream data to its output: the token *)
(*                path and the smart-money search, then the merge.         *)
(***************************************************************************)
EXTENDS Integers, Sequences, FiniteSets, TLC

(***************************************************************************)
(* Bounds of the model.                                                    *)
(***************************************************************************)
\* trades getSmartMoneyDexTrades answers with
MaxTrades == 3
\* longest raw list of fresh wallets one search hands back
MaxFound == 2
\* performScan calls (scheduled or manual) the model tracks at once
MaxScans == 2
\* the clock runs up to MaxClock ms
MaxClock == 6000
\* the clock advances in steps of TickStep ms
TickStep == 1000
\* logical requests the flows issue, all flows together
MaxRequests == 3
\* upstream dispatches the model follows for one logical request
MaxSent == 4
\* NANSEN_MAX_REQUESTS_PER_SECOND of the modelled configuration (1..100)
maxRequestsPerSecond == 1
\* NANSEN_MAX_REQUESTS_PER_MINUTE of the modelled configuration (10..1000)
maxRequestsPerMinute == 10
\* transfers the upstream returns for the token in the scan window
MaxTransfers == 2
\* records in one upstream answer about a wallet
MaxRecords == 1
\* the cache's clock runs up to MaxCacheClock seconds
MaxCacheClock == 2
\* get and getOrSet calls the flows make, all flows together
MaxCalls == 3
\* tokens in one screener answer
MaxTokens == 1
\* findTokensForTickers calls the model follows
MaxResolves == 2
\* the timeline ends after this many seconds
MaxWallClock == 300
\* tokens the token search loops over
MaxSearchTokens == 2
\* full pages the upstream answers with, all tokens together
MaxFullPages == 2
\* transfers spelled out in the upstream's pages, all tokens together
MaxListed == 2

(***************************************************************************)
(* Values the scan works on.                                               *)
(***************************************************************************)
Wallets == {"0xBEEF", "0xCAFE"}
Chains == {"ethereum", "bnb"}
Deposits == {1000, 5000}

\* FreshWallet {wallet, chain, initDepositUSD}
FreshWallet == [wallet : Wallets, chain : Chains, initDepositUSD : Deposits]

SeqsUpTo(S, n) == UNION {[1..k -> S] : k \in 0..n}

VARIABLES
    \* ---- FreshWalletScanner ----
    job,              \* TRUE iff this.job !== null
    cronTasks,        \* the cron tasks scheduled and not stopped
    isRunning,        \* this.isRunning
    apiKeyValid,      \* what configService.validateApiKey() answers
    scans,            \* the performScan calls in progress, one per slot
    lastTick,         \* what the latest runScan call did
    runScanRejected,  \* TRUE once a runScan promise rejected
    \* ---- one performScan, from the searches' results to its return ----
    regularFound,     \* freshWallets gathered by findFreshWallets
    regularOutcome,   \* "pending", "fulfilled" or "rejected"
    regularWallets,   \* the value findFreshWallets fulfilled with
    smartOutcome,     \* "pending" or "fulfilled"
    smartFound,       \* freshWallets gathered by findFreshWalletsWithSmartMoney
    smartMoneyWallets, \* the value findFreshWalletsWithSmartMoney fulfilled with
    scanReturned,     \* TRUE once performScan returned
    scanOutput,       \* uniqueWallets, what performScan returned
    alerts,           \* the alerts TgClient.sendFreshWalletAlert has sent
    smartRun,         \* where findFreshWalletsWithSmartMoney stands
    \* ---- NansenApiClient ----
    clock,            \* Date.now(), in ms
    requestTimes,     \* this.requestTimes
    minuteRequestTimes, \* this.minuteRequestTimes
    actualSecond,     \* times requests really left the limiter, last 1000 ms
    actualMinute,     \* times requests really left the limiter, last 60000 ms
    flow,             \* per calling flow: where its current request stands
    issued,           \* logical requests issued so far
    \* ---- FreshWalletService, token path for one token ----
    chain,            \* the chain of the token under evaluation
    transfers,        \* upstream: the token's transfers in the scan window
    walletTransactions, \* upstream: the recipient's transaction history
    walletBalances,   \* upstream: the recipient's current balances
    walletHistorical, \* upstream: the recipient's historical balances
    vpc,              \* where findFreshWalletsForSpecificToken stands
    significantIncomingTransfers, \* the transfers that passed the filter
    verified,         \* per verified candidate: failed calls and the verdict
    current,          \* the calls that failed for the current candidate
    freshWallets,     \* freshWallets of findFreshWalletsForSpecificToken
    \* ---- CacheService ----
    cacheClock,       \* Date.now(), in seconds
    cache,            \* this.cache: per key, the entry or Absent
    caller,           \* per calling flow: its get / getOrSet call
    lastMiss,         \* per key: the latest getOrSet miss that completed
    called,           \* get and getOrSet calls made so far
    \* ---- token resolution (NansenApiClient.findTokensForTickers) ----
    screener,         \* upstream: per chain, the tokens the screener lists
    chainsArg,        \* chains, as passed to the current call
    rpc,              \* "idle" or "querying"
    pending,          \* the chains the current call has still to query
    tokenMap,         \* tokenMap of the current call
    queried,          \* the screener calls of the current call: chain, outcome
    resolves,         \* findTokensForTickers calls made so far
    callsMade,        \* per call made: its number of screener calls
    returned,         \* the tokenMap the latest call returned
    \* ---- process start ----
    env,              \* process.env, as far as the configuration reads it
    validating,       \* TRUE iff Application.initialize validates
    app,              \* "loading", "configured", "started" or "failed"
    \* ---- the scan window on the timeline ----
    wallClock,        \* moment(), in seconds since midnight UTC
    windows,          \* per transfer query made: its date.from and date.to
    fetched,          \* TRUE iff the scan in progress made its query
    \* ---- FreshWalletService.findFreshWallets, the loop over the tokens ----
    filteredTokens,   \* the tokens of filteredTokenMap, in iteration order
    spc,              \* "paging", "verifying", "settled" or "done"
    tokenIndex,       \* the token the loop is at
    tokenRun,         \* findFreshWalletsForSpecificToken for that token
    searchFreshWallets, \* freshWallets of findFreshWallets
    tokenResults,     \* per token processed: what its call returned
    searchOutput,     \* what performScan returned
    budget            \* full pages and spelled-out transfers answered so far

scannerVars == <<job, cronTasks, isRunning, apiKeyValid, scans, lastTick, runScanRejected>>

mergeVars == <<regularFound, regularOutcome, regularWallets, smartOutcome,
               smartFound, smartMoneyWallets, scanReturned, scanOutput, alerts, smartRun>>

gatewayVars == <<clock, requestTimes, minuteRequestTimes, actualSecond,
                 actualMinute, flow, issued>>

verifyVars == <<chain, transfers, walletTransactions, walletBalances,
                walletHistorical, vpc, significantIncomingTransfers, verified,
                current, freshWallets>>

cacheVars == <<cacheClock, cache, caller, lastMiss, called>>

resolveVars == <<screener, chainsArg, rpc, pending, tokenMap, queried, resolves,
                 callsMade, returned>>

startupVars == <<env, validating, app>>

windowVars == <<wallClock, windows, fetched>>

searchVars == <<filteredTokens, spc, tokenIndex, tokenRun, searchFreshWallets,
                tokenResults, searchOutput, budget>>

vars == <<scannerVars, mergeVars, gatewayVars, verifyVars, cacheVars, resolveVars,
          startupVars, windowVars, searchVars>>

nonScannerVars == <<mergeVars, gatewayVars, verifyVars, cacheVars, resolveVars,
    startupVars, windowVars, searchVars>>

nonMergeVars == <<scannerVars, gatewayVars, verifyVars, cacheVars, resolveVars,
    startupVars, windowVars, searchVars>>

nonGatewayVars == <<scannerVars, mergeVars, verifyVars, cacheVars, resolveVars,
    startupVars, windowVars, searchVars>>

nonVerifyVars == <<scannerVars, mergeVars, gatewayVars, cacheVars, resolveVars,
    startupVars, windowVars, searchVars>>

nonCacheVars == <<scannerVars, mergeVars, gatewayVars, verifyVars, resolveVars,
    startupVars, windowVars, searchVars>>

nonResolveVars == <<scannerVars, mergeVars, gatewayVars, verifyVars, cacheVars,
    startupVars, windowVars, searchVars>>

(***************************************************************************)
(* NansenApiClient: the rate limiter and the retry policy.                 *)
(***************************************************************************)
\* NANSEN_RETRY_ATTEMPTS, the configured default
retryAttempts == 3
\* window of this.requestTimes, ms
SecondWindow == 1000
\* window of this.minuteRequestTimes, ms
MinuteWindow == 60000
\* The flows that call the client at once: performScan runs the token search
\* and the smart-money search under one Promise.allSettled.
Flows == {"regular", "smartMoney"}

\* HTTP statuses the upstream answers with; 0 is a timeout (no response).
Statuses == {200, 404, 429, 500, 0}

RECURSIVE Pow2(_)
Pow2(n) == IF n = 0 THEN 1 ELSE 2 * Pow2(n - 1)

Front(s) == SubSeq(s, 1, Len(s) - 1)

Last(s) == s[Len(s)]

\* Array.prototype.filter((time) => now - time < window)
RECURSIVE FilterRecent(_, _, _)
FilterRecent(times, now, window) ==
    IF times = <<>> THEN <<>>
    ELSE IF now - Head(times) < window
         THEN <<Head(times)>> \o FilterRecent(Tail(times), now, window)
         ELSE FilterRecent(Tail(times), now, window)

IdleFlow == [pc |-> "idle", now |-> 0, wakeAt |-> 0, stack |-> <<>>, sent |-> 0,
             lastStatus |-> -1, result |-> "none", resent |-> FALSE,
             waitTime |-> 0]

GatewayIdle ==
    /\ clock = 0
    /\ requestTimes = <<>>
    /\ minuteRequestTimes = <<>>
    /\ actualSecond = <<>>
    /\ actualMinute = <<>>
    /\ flow = [f \in Flows |-> IdleFlow]
    /\ issued = 0

\* shouldRetry: 429 or 5xx, and only when there is a response at all.
shouldRetry(status) ==
    IF status = 0 THEN FALSE
    ELSE status = 429 \/ (status >= 500 /\ status < 600)

IsClientError(status) == status >= 400 /\ status < 500 /\ status # 429

\* Math.pow(2, attempt) * 1000
backoffMs(attempt) == Pow2(attempt) * 1000

\* The retryRequest frames that are on the stack of a logical request, by
\* their attempt number.  A rejection that reaches the catch of the top frame
\* makes it call retryRequest(retryError, attempt + 1); a frame whose attempt
\* reached retryAttempts rejects into the frame below it.  The empty stack
\* means the error reached the caller.
RECURSIVE Unwind(_)
Unwind(stack) ==
    IF stack = <<>> THEN <<>>
    ELSE IF Last(stack) + 1 >= retryAttempts
         THEN Unwind(Front(stack))
         ELSE Append(Front(stack), Last(stack) + 1)

\* The response error handler: a retryable error enters retryRequest(error)
\* with the default attempt = 1, any other error is rejected.
afterError(stack, status) ==
    IF shouldRetry(status)
    THEN IF 1 >= retryAttempts THEN Unwind(stack) ELSE Append(stack, 1)
    ELSE Unwind(stack)

\* The end of enforceRateLimit and the dispatch that follows it: the time
\* read at entry is pushed on both logs and the request leaves at the
\* current time.
RecordAndDispatch(f) ==
    /\ requestTimes' = Append(requestTimes, flow[f].now)
    /\ minuteRequestTimes' = Append(minuteRequestTimes, flow[f].now)
    /\ actualSecond' = Append(actualSecond, clock)
    /\ actualMinute' = Append(actualMinute, clock)
    /\ flow' = [flow EXCEPT ![f].pc = "inflight",
                            ![f].sent = @ + 1,
                            ![f].resent = @ \/ IsClientError(flow[f].lastStatus)]

\* A flow calls one of the client's API methods: a new logical request.
Request(f) ==
    /\ flow[f].pc = "idle"
    /\ issued < MaxRequests
    /\ issued' = issued + 1
    /\ flow' = [flow EXCEPT ![f] = [IdleFlow EXCEPT !.pc = "limiter"]]
    /\ UNCHANGED <<clock, requestTimes, minuteRequestTimes, actualSecond, actualMinute>>
    /\ UNCHANGED nonGatewayVars

\* The per-minute check of enforceRateLimit, on the logs as they are when it
\* is reached, with the time read at entry.
MinuteCheck(f, now, seconds, minutes) ==
    LET waitTime == MinuteWindow - (now - minutes[1])
    IN  IF Len(minutes) >= maxRequestsPerMinute /\ waitTime > 0
        THEN /\ flow' = [flow EXCEPT ![f].pc = "sleepMinute", ![f].now = now,
                                     ![f].wakeAt = clock + waitTime]
             /\ requestTimes' = seconds
             /\ minuteRequestTimes' = minutes
             /\ UNCHANGED <<actualSecond, actualMinute>>
        ELSE /\ requestTimes' = Append(seconds, now)
             /\ minuteRequestTimes' = Append(minutes, now)
             /\ actualSecond' = Append(actualSecond, clock)
             /\ actualMinute' = Append(actualMinute, clock)
             /\ flow' = [flow EXCEPT ![f].pc = "inflight", ![f].now = now,
                                     ![f].sent = @ + 1,
                                     ![f].resent = @ \/ IsClientError(flow[f].lastStatus)]

\* enforceRateLimit, from its entry to its first sleep or to the dispatch.
enforceRateLimit(f) ==
    /\ flow[f].pc = "limiter"
    /\ flow[f].sent < MaxSent
    /\ LET now == clock
           seconds == FilterRecent(requestTimes, now, SecondWindow)
           minutes == FilterRecent(minuteRequestTimes, now, MinuteWindow)
           waitTime == SecondWindow - (now - seconds[1])
       IN  IF Len(seconds) >= maxRequestsPerSecond /\ waitTime > 0
           THEN /\ flow' = [flow EXCEPT ![f].pc = "sleepSecond", ![f].now = now,
                                        ![f].wakeAt = clock + waitTime]
                /\ requestTimes' = seconds
                /\ minuteRequestTimes' = minutes
                /\ UNCHANGED <<actualSecond, actualMinute>>
           ELSE MinuteCheck(f, now, seconds, minutes)
    /\ UNCHANGED <<clock, issued>>
    /\ UNCHANGED nonGatewayVars

\* A sleep of enforceRateLimit is over.  After the sleep of the per-second
\* check comes the per-minute check, after the sleep of the per-minute check
\* the request is recorded and dispatched.
enforceRateLimitResumes(f) ==
    /\ flow[f].pc \in {"sleepSecond", "sleepMinute"}
    /\ clock >= flow[f].wakeAt
    /\ IF flow[f].pc = "sleepSecond"
       THEN MinuteCheck(f, flow[f].now, requestTimes, minuteRequestTimes)
       ELSE RecordAndDispatch(f)
    /\ UNCHANGED <<clock, issued>>
    /\ UNCHANGED nonGatewayVars

\* The upstream answers the request in flight (or the request times out).
Respond(f) ==
    /\ flow[f].pc = "inflight"
    /\ \E status \in Statuses :
         IF status = 200
         THEN flow' = [flow EXCEPT ![f].pc = "idle", ![f].stack = <<>>,
                                   ![f].lastStatus = status, ![f].result = "ok"]
         ELSE LET stack == afterError(flow[f].stack, status)
              IN  IF stack = <<>>
                  THEN flow' = [flow EXCEPT ![f].pc = "idle", ![f].stack = <<>>,
                                            ![f].lastStatus = status,
                                            ![f].result = "error"]
                  ELSE flow' = [flow EXCEPT ![f].pc = "backoff", ![f].stack = stack,
                                            ![f].lastStatus = status,
                                            ![f].waitTime = backoffMs(Last(stack)),
                                            ![f].wakeAt = clock + backoffMs(Last(stack))]
    /\ UNCHANGED <<clock, requestTimes, minuteRequestTimes, actualSecond, actualMinute, issued>>
    /\ UNCHANGED nonGatewayVars

\* Where this.client.request(config) takes a request first: the request
\* interceptor, that is enforceRateLimit.
clientRequestPastInterceptor == "inflight"

clientRequest == "limiter"

\* The backoff sleep of retryRequest is over: this.client.request(config)
\* sends the request through the interceptors again.
BackoffEnds(f) ==
    /\ flow[f].pc = "backoff"
    /\ clock >= flow[f].wakeAt
    /\ flow' = [flow EXCEPT ![f].pc = clientRequest]
    /\ UNCHANGED <<clock, requestTimes, minuteRequestTimes, actualSecond, actualMinute, issued>>
    /\ UNCHANGED nonGatewayVars

Sleeping(f) == flow[f].pc \in {"sleepSecond", "sleepMinute", "backoff"}

TimerDue == \E f \in Flows : Sleeping(f) /\ flow[f].wakeAt <= clock

\* Time passes.  A timer that is due fires before the clock moves on.
AdvanceTo(t) ==
    /\ clock' = t
    /\ actualSecond' = FilterRecent(actualSecond, t, SecondWindow)
    /\ actualMinute' = FilterRecent(actualMinute, t, MinuteWindow)
    /\ UNCHANGED <<requestTimes, minuteRequestTimes, flow, issued>>
    /\ UNCHANGED nonGatewayVars

Tick ==
    /\ ~TimerDue
    /\ clock + TickStep <= MaxClock
    /\ AdvanceTo(clock + TickStep)

GatewayNext ==
    \/ \E f \in Flows : Request(f)
    \/ \E f \in Flows : enforceRateLimit(f)
    \/ \E f \in Flows : enforceRateLimitResumes(f)
    \/ \E f \in Flows : Respond(f)
    \/ \E f \in Flows : BackoffEnds(f)
    \/ Tick

(***************************************************************************)
(* Pure helpers of the scanner and the service.                            *)
(***************************************************************************)
\* the Map / Set key `${wallet.wallet}:${wallet.chain}`
key(w) == <<w.wallet, w.chain>>

\* Index of the entry of seq s whose key is k, 0 when there is none.
IndexOfKey(s, k) ==
    IF \E i \in 1..Len(s) : key(s[i]) = k
    THEN CHOOSE i \in 1..Len(s) : key(s[i]) = k /\ \A j \in 1..(i-1) : key(s[j]) # k
    ELSE 0

\* FreshWalletScanner.removeDuplicateWallets: a Map keyed by wallet:chain,
\* an entry is replaced (in place) by a later one with a larger deposit.
RECURSIVE ScannerDedupFrom(_, _, _)
ScannerDedupFrom(wallets, i, seen) ==
    IF i > Len(wallets) THEN seen
    ELSE LET w == wallets[i]
             p == IndexOfKey(seen, key(w))
         IN  IF p = 0
             THEN ScannerDedupFrom(wallets, i + 1, Append(seen, w))
             ELSE IF w.initDepositUSD > seen[p].initDepositUSD
                  THEN ScannerDedupFrom(wallets, i + 1, [seen EXCEPT ![p] = w])
                  ELSE ScannerDedupFrom(wallets, i + 1, seen)

ScannerRemoveDuplicateWalletsNoDedup(wallets) == wallets

ScannerRemoveDuplicateWallets(wallets) == ScannerDedupFrom(wallets, 1, <<>>)

\* FreshWalletService.removeDuplicateWallets: a Set of seen keys, the first
\* entry of each key is kept.
RECURSIVE ServiceDedupFrom(_, _, _)
ServiceDedupFrom(wallets, i, unique) ==
    IF i > Len(wallets) THEN unique
    ELSE IF IndexOfKey(unique, key(wallets[i])) = 0
         THEN ServiceDedupFrom(wallets, i + 1, Append(unique, wallets[i]))
         ELSE ServiceDedupFrom(wallets, i + 1, unique)

ServiceRemoveDuplicateWallets(wallets) == ServiceDedupFrom(wallets, 1, <<>>)

\* The comparator (a, b) => b.initDepositUSD - a.initDepositUSD: negative
\* when a goes first.
compareDepositAscending(a, b) == a.initDepositUSD - b.initDepositUSD

compareDeposit(a, b) == b.initDepositUSD - a.initDepositUSD

\* Array.prototype.sort(compareDeposit): a stable sort, largest deposit first
\* (insertion of each entry behind the entries the comparator does not put
\* after it).
RECURSIVE InsertByDeposit(_, _)
InsertByDeposit(sorted, w) ==
    IF sorted = <<>> THEN <<w>>
    ELSE IF compareDeposit(Head(sorted), w) <= 0
         THEN <<Head(sorted)>> \o InsertByDeposit(Tail(sorted), w)
         ELSE <<w>> \o sorted

RECURSIVE SortByDepositDesc(_)
SortByDepositDesc(s) ==
    IF s = <<>> THEN <<>>
    ELSE InsertByDeposit(SortByDepositDesc(SubSeq(s, 1, Len(s) - 1)), s[Len(s)])

(***************************************************************************)
(* FreshWalletScanner                                                      *)
(***************************************************************************)
ScanIds == 1..MaxScans

FreeScan == [kind |-> "free", regular |-> "pending", smart |-> "pending"]

\* CacheService: the keys, values and TTLs (seconds) the flows use.
Keys == {"k1", "k2"}

Values == {"v1", "v2"}

TTLs == {1, 2}

Callers == {"a", "b"}

\* No entry under a key.
Absent == [value |-> "undefined", expiresAt |-> 0]

\* No getOrSet miss completed yet.
NoMiss == [value |-> "none", until |-> 0]

\* A flow that has not called the cache.
IdleCaller ==
    [pc |-> "idle", op |-> "none", key |-> "k1", ttl |-> 1, missed |-> FALSE,
     factoryCalls |-> 0, produced |-> "none", result |-> "none",
     returnedAt |-> 0, sawMiss |-> NoMiss, racedWith |-> "none"]

\* The tickers of the configuration, lower case.
tickers == <<"tok">>

\* The keys tokenMap can have.
TickerKeys == {"tok", "other"}

\* new Map(): no ticker has tokens.
EmptyTokenMap == [t \in TickerKeys |-> <<>>]

\* No findTokensForTickers call was made.
ResolveIdle ==
    /\ screener = [c \in Chains |-> <<>>]
    /\ chainsArg = <<>>
    /\ rpc = "idle"
    /\ pending = <<>>
    /\ tokenMap = EmptyTokenMap
    /\ queried = <<>>
    /\ resolves = 0
    /\ callsMade = <<>>
    /\ returned = EmptyTokenMap

\* The process started with an accepted configuration.
StartupIdle ==
    /\ env = [CHAINS |-> "ethereum,bnb", INTERVAL_SECONDS |-> 60,
              NANSEN_API_KEY |-> [text |-> "key-of-32-characters", length |-> 32],
              NODE_ENV |-> "dev"]
    /\ validating = FALSE
    /\ app = "started"

\* No transfer query was made.
WindowIdle ==
    /\ wallClock = 0
    /\ windows = <<>>
    /\ fetched = FALSE

\* The state of findFreshWalletsForSpecificToken at its first statement.
NewTokenRun ==
    [requested |-> <<>>, answers |-> <<>>, transfers |-> <<>>,
     filteredFrom |-> <<>>, significant |-> <<>>, checked |-> 0,
     freshWallets |-> <<>>, failed |-> FALSE]

\* No token search is under way.
SearchIdle ==
    /\ filteredTokens = <<>>
    /\ spc = "done"
    /\ tokenIndex = 1
    /\ tokenRun = NewTokenRun
    /\ searchFreshWallets = <<>>
    /\ tokenResults = <<>>
    /\ searchOutput = <<>>
    /\ budget = [fullPages |-> 0, listed |-> 0]

\* new CacheService(): an empty cache.
CacheIdle ==
    /\ cacheClock = 0
    /\ cache = [k \in Keys |-> Absent]
    /\ caller = [p \in Callers |-> IdleCaller]
    /\ lastMiss = [k \in Keys |-> NoMiss]
    /\ called = 0

VerifyIdle ==
    /\ chain = "ethereum"
    /\ transfers = <<>>
    /\ walletTransactions = <<>>
    /\ walletBalances = <<>>
    /\ walletHistorical = <<>>
    /\ vpc = "done"
    /\ significantIncomingTransfers = <<>>
    /\ verified = <<>>
    /\ current = [txFailed |-> FALSE, balFailed |-> FALSE, histFailed |-> FALSE]
    /\ freshWallets = <<>>

ScannerIdle ==
    /\ job = FALSE
    /\ cronTasks = 0
    /\ isRunning = FALSE
    /\ scans = [s \in ScanIds |-> FreeScan]
    /\ lastTick = "none"
    /\ runScanRejected = FALSE

ScannerInit ==
    /\ ScannerIdle
    /\ apiKeyValid \in BOOLEAN

\* findFreshWalletsWithSmartMoney before its first call.
NewSmartRun == [pc |-> "trades", smartTrades |-> <<>>, checked |-> 0]

MergeIdle ==
    /\ regularFound = <<>>
    /\ regularOutcome = "pending"
    /\ regularWallets = <<>>
    /\ smartOutcome = "pending"
    /\ smartFound = <<>>
    /\ smartMoneyWallets = <<>>
    /\ scanReturned = FALSE
    /\ scanOutput = <<>>
    /\ alerts = <<>>
    /\ smartRun = NewSmartRun

HasFreeSlot == \E s \in ScanIds : scans[s].kind = "free"

FreeSlot == CHOOSE s \in ScanIds :
                scans[s].kind = "free" /\ \A t \in 1..(s-1) : scans[t].kind # "free"

ScheduledBodies == {s \in ScanIds : scans[s].kind = "scheduled"}

ManualBodies == {s \in ScanIds : scans[s].kind = "manual"}

\* The guard at the head of runScan.
runScanGuardOff(running) == FALSE

runScanSkips(running) == running

\* What the finally block of runScan leaves in isRunning.
runScanFinallyKeeps(running) == running

runScanFinally(running) == FALSE

\* What the early return of runScan leaves in isRunning: it comes before
\* the try, so the finally block does not run.
runScanReturnsEarlyReleases(running) == FALSE

runScanReturnsEarly(running) == running

\* The catch clause of runScan: the error is logged, not rethrown.
runScanCatch == TRUE

\* runScan, up to its first suspension.  A performScan that throws on the
\* API key check is caught and the finally block runs before any other
\* callback can: the call is over within the step.
runScan ==
    IF runScanSkips(isRunning)
    THEN /\ lastTick' = "skipped"
         /\ isRunning' = runScanReturnsEarly(isRunning)
         /\ UNCHANGED <<scans, runScanRejected>>
    ELSE IF apiKeyValid
         THEN /\ HasFreeSlot
              /\ isRunning' = TRUE
              /\ scans' = [scans EXCEPT ![FreeSlot] = [FreeScan EXCEPT !.kind = "scheduled"]]
              /\ lastTick' = "started"
              /\ UNCHANGED runScanRejected
         ELSE /\ isRunning' = runScanFinally(TRUE)
              /\ lastTick' = "failed"
              /\ runScanRejected' = (runScanRejected \/ ~runScanCatch)
              /\ UNCHANGED scans

\* The guard at the head of start(): a scanner that has a job returns.
startGuardOff(scheduled) == FALSE

startReturnsEarly(scheduled) == scheduled

\* start(): schedules the cron job and launches the initial scan.
start ==
    /\ IF startReturnsEarly(job)
       THEN UNCHANGED scannerVars
       ELSE /\ job' = TRUE
            /\ cronTasks' = cronTasks + 1
            /\ runScan
            /\ UNCHANGED apiKeyValid
    /\ UNCHANGED nonScannerVars

\* this.job.stop(): the task fires no more.
jobStopSkipped(tasks) == tasks

jobStop(tasks) == tasks - 1

\* stop(): the job is stopped and dropped; a running scan is left alone.
stop ==
    /\ job
    /\ job' = FALSE
    /\ cronTasks' = jobStop(cronTasks)
    /\ UNCHANGED <<isRunning, apiKeyValid, scans, lastTick, runScanRejected>>
    /\ UNCHANGED nonScannerVars

\* getStatus()
getStatus == [isActive |-> job, isRunning |-> isRunning]

\* The cron callback of a task that is scheduled and not stopped:
\* async () => { await this.runScan(); }
CronTick ==
    /\ cronTasks > 0
    /\ runScan
    /\ UNCHANGED <<job, cronTasks, apiKeyValid>>
    /\ UNCHANGED nonScannerVars

\* runManualScan(): straight into performScan, isRunning is not consulted.
\* With an invalid API key performScan throws and the call rejects at once.
runManualScan ==
    /\ IF apiKeyValid
       THEN /\ HasFreeSlot
            /\ scans' = [scans EXCEPT ![FreeSlot] = [FreeScan EXCEPT !.kind = "manual"]]
       ELSE UNCHANGED scans
    /\ UNCHANGED <<job, cronTasks, isRunning, apiKeyValid, lastTick, runScanRejected>>
    /\ UNCHANGED nonScannerVars

\* findFreshWallets of scan s settles: it fulfils, or rejects (it rethrows).
FindFreshWalletsSettles(s) ==
    /\ scans[s].kind # "free"
    /\ scans[s].regular = "pending"
    /\ \E outcome \in {"fulfilled", "rejected"} :
         scans' = [scans EXCEPT ![s].regular = outcome]
    /\ UNCHANGED <<job, cronTasks, isRunning, apiKeyValid, lastTick, runScanRejected>>
    /\ UNCHANGED nonScannerVars

\* findFreshWalletsWithSmartMoney of scan s settles: it always fulfils
\* (its catch returns []).
SmartMoneySettles(s) ==
    /\ scans[s].kind # "free"
    /\ scans[s].smart = "pending"
    /\ scans' = [scans EXCEPT ![s].smart = "fulfilled"]
    /\ UNCHANGED <<job, cronTasks, isRunning, apiKeyValid, lastTick, runScanRejected>>
    /\ UNCHANGED nonScannerVars

AllSettled(s) == scans[s].regular # "pending" /\ scans[s].smart # "pending"

\* The scheduled performScan of slot s returns: runScan logs the result and
\* its finally block runs.
ScheduledScanReturns(s) ==
    /\ scans[s].kind = "scheduled"
    /\ AllSettled(s)
    /\ scans' = [scans EXCEPT ![s] = FreeScan]
    /\ isRunning' = runScanFinally(isRunning)
    /\ UNCHANGED <<job, cronTasks, apiKeyValid, lastTick, runScanRejected>>
    /\ UNCHANGED nonScannerVars

\* The manual performScan of slot s returns its result to the caller.
ManualScanReturns(s) ==
    /\ scans[s].kind = "manual"
    /\ AllSettled(s)
    /\ scans' = [scans EXCEPT ![s] = FreeScan]
    /\ UNCHANGED <<job, cronTasks, isRunning, apiKeyValid, lastTick, runScanRejected>>
    /\ UNCHANGED nonScannerVars

Init == ScannerInit /\ MergeIdle /\ GatewayIdle /\ VerifyIdle /\ CacheIdle /\ StartupIdle /\ WindowIdle /\ SearchIdle /\ ResolveIdle

Next ==
    \/ start
    \/ stop
    \/ CronTick
    \/ runManualScan
    \/ \E s \in ScanIds : FindFreshWalletsSettles(s)
    \/ \E s \in ScanIds : SmartMoneySettles(s)
    \/ \E s \in ScanIds : ScheduledScanReturns(s)
    \/ \E s \in ScanIds : ManualScanReturns(s)

Spec == Init /\ [][Next]_vars

(***************************************************************************)
(* One performScan: the two searches settle, the results are merged.       *)
(***************************************************************************)
\* The raw lists the two searches can gather.
RegularFoundLists == SeqsUpTo(FreshWallet, MaxFound)

\* findFreshWalletsWithSmartMoney: one entry per unique address, always on
\* chain 'ethereum', in iteration order.
SmartFoundLists ==
    {s \in SeqsUpTo([wallet : Wallets, chain : {"ethereum"}, initDepositUSD : Deposits], MaxFound) :
        \A i, j \in 1..Len(s) : i # j => s[i].wallet # s[j].wallet}

\* A scheduled scan is inside performScan: runScan set isRunning and awaits.
MergeInit ==
    /\ job = TRUE
    /\ cronTasks = 1
    /\ isRunning = TRUE
    /\ scans = [s \in ScanIds |-> FreeScan]
    /\ lastTick = "started"
    /\ runScanRejected = FALSE
    /\ apiKeyValid = TRUE
    /\ GatewayIdle
    /\ VerifyIdle
    /\ CacheIdle
    /\ StartupIdle
    /\ WindowIdle
    /\ SearchIdle
    /\ ResolveIdle
    /\ regularFound \in RegularFoundLists
    /\ smartFound \in SmartFoundLists
    /\ regularOutcome = "pending"
    /\ regularWallets = <<>>
    /\ smartOutcome = "pending"
    /\ smartMoneyWallets = <<>>
    /\ scanReturned = FALSE
    /\ scanOutput = <<>>
    /\ alerts = <<>>
    /\ smartRun = NewSmartRun

\* findFreshWallets fulfils with its list deduplicated and sorted.
FindFreshWalletsFulfils ==
    /\ regularOutcome = "pending"
    /\ regularOutcome' = "fulfilled"
    /\ regularWallets' = SortByDepositDesc(ServiceRemoveDuplicateWallets(regularFound))
    /\ UNCHANGED <<regularFound, smartOutcome, smartFound, smartMoneyWallets,
                   scanReturned, scanOutput, alerts, smartRun>>
    /\ UNCHANGED nonMergeVars

\* findFreshWallets rejects (token resolution failed): its list is lost.
FindFreshWalletsRejects ==
    /\ regularOutcome = "pending"
    /\ regularOutcome' = "rejected"
    /\ UNCHANGED <<regularFound, regularWallets, smartOutcome, smartFound,
                   smartMoneyWallets, scanReturned, scanOutput, alerts, smartRun>>
    /\ UNCHANGED nonMergeVars

\* findFreshWalletsWithSmartMoney fulfils with its list as gathered.
SmartMoneyFulfils ==
    /\ smartOutcome = "pending"
    /\ smartOutcome' = "fulfilled"
    /\ smartMoneyWallets' = smartFound
    /\ UNCHANGED <<regularFound, regularOutcome, regularWallets, smartFound,
                   scanReturned, scanOutput, alerts, smartRun>>
    /\ UNCHANGED nonMergeVars

\* allWallets of performScan: the fulfilled values, regular first.
allWalletsOfAllOrNone ==
    IF regularOutcome = "fulfilled" /\ smartOutcome = "fulfilled"
    THEN regularWallets \o smartMoneyWallets
    ELSE <<>>

allWallets ==
    (IF regularOutcome = "fulfilled" THEN regularWallets ELSE <<>>)
        \o (IF smartOutcome = "fulfilled" THEN smartMoneyWallets ELSE <<>>)

\* The tail of performScan once Promise.allSettled resolved.
performScan ==
    /\ regularOutcome # "pending"
    /\ smartOutcome # "pending"
    /\ ~scanReturned
    /\ scanOutput' = SortByDepositDesc(ScannerRemoveDuplicateWallets(allWallets))
    /\ scanReturned' = TRUE
    /\ UNCHANGED <<regularFound, regularOutcome, regularWallets, smartOutcome,
                   smartFound, smartMoneyWallets, alerts, smartRun>>
    /\ UNCHANGED nonMergeVars

\* The rest of runScan once performScan returned freshWallets: the duration
\* and the first five wallets are logged, then the finally block runs.  The
\* place where results would be stored or notified holds a comment only: no
\* call to TgClient is made.
runScanLogsResult ==
    /\ scanReturned
    /\ isRunning
    /\ isRunning' = runScanFinally(isRunning)
    /\ UNCHANGED <<job, cronTasks, apiKeyValid, scans, lastTick, runScanRejected>>
    /\ UNCHANGED mergeVars
    /\ UNCHANGED <<gatewayVars, verifyVars, cacheVars, resolveVars, startupVars,
                   windowVars, searchVars>>

MergeNext ==
    \/ FindFreshWalletsFulfils
    \/ FindFreshWalletsRejects
    \/ SmartMoneyFulfils
    \/ performScan
    \/ runScanLogsResult

MergeSpec == MergeInit /\ [][MergeNext]_vars

(***************************************************************************)
(* FreshWalletService, token path for one token: the candidate filter and  *)
(* verifyWalletWasTrulyFreshBeforeTransfer.                                *)
(***************************************************************************)
\* FRESH_WALLET_MIN_DEPOSIT_USD, the configured default
minDepositUSD == 1000
\* balances above this many USD count (currentBalances and historicalBalances)
DustUSD == 1
\* a run of at least this many zero digits marks a contract address
ZeroRun == 10

\* The token under evaluation.
tokenAddress == "0xAAA"

\* String.prototype.toLowerCase on the token addresses that occur.
toLowerCase(str) ==
    CASE str = "0xAAA" -> "0xaaa"
      [] str = "0xaaa" -> "0xaaa"
      [] str = "0xBBB" -> "0xbbb"
      [] str = "TOK" -> "tok"
      [] str = "OTHER" -> "other"
      [] OTHER -> str

\* A wallet address: its lower-case text and the lengths of the runs of zero
\* digits right after "0x" and at its end.
Addresses ==
    { [text |-> "0xbeef00000000000000000000000000000000cafe", leadingZeros |-> 0, trailingZeros |-> 0],
      [text |-> "0x0000000000000000000000000000000000001010", leadingZeros |-> 36, trailingZeros |-> 1],
      [text |-> "0x7a250d5630b4cf539739df2c5dacb4c659f2488d", leadingZeros |-> 0, trailingZeros |-> 0] }

\* knownPatterns of isValidPrivateWallet: the two Uniswap routers.
knownPatterns ==
    {"0x7a250d5630b4cf539739df2c5dacb4c659f2488d",
     "0xe592427a0aece92de3edee1f18e0157c05861564"}

\* isValidPrivateWallet: not a known router, no /^0x0{10,}/, no /0{10,}$/.
isValidPrivateWallet(address) ==
    /\ address.text \notin knownPatterns
    /\ ~(address.leadingZeros >= ZeroRun)
    /\ ~(address.trailingZeros >= ZeroRun)

\* Block timestamps, as instants.
Times == 1..2

\* The label the upstream gives an address it knows nothing about.
UnlabeledMarker == ""

Labels == {UnlabeledMarker, "Binance"}

\* TxTypes
TxTypes == {"transfer", "swap", "simpleSwap", "multicall", "transferAndMulticall"}

\* Who sent a transfer: a private wallet or an exchange.
Senders ==
    { [fromAddress |-> "0xf00d00000000000000000000000000000000d00d", fromLabel |-> UnlabeledMarker],
      [fromAddress |-> "0x28c6c06298d514db089934071355e5743bf21d60", fromLabel |-> "Binance"] }

\* valueUsd of a transfer the upstream sent without one (undefined).
MissingValue == -1

\* TokenTransfersResponse
TokenTransfersResponse ==
    [toAddress : Addresses, toLabel : Labels,
     fromAddress : {sender.fromAddress : sender \in Senders},
     fromLabel : Labels, txType : TxTypes,
     valueUsd : {MissingValue, 500, 5000}, blockTimestamp : Times]

\* The transfers of the runs that look at verification: plain transfers from
\* a private wallet to an unlabeled address, a private wallet or a contract
\* with a run of zeros.  A transfer to an address that is not a private
\* wallet is dropped whatever its value and time, so one transfer stands for
\* such an address.
Transfer ==
    { transfer \in TokenTransfersResponse :
        /\ transfer.toAddress.text \notin knownPatterns
        /\ transfer.toLabel = UnlabeledMarker
        /\ transfer.fromAddress = "0xf00d00000000000000000000000000000000d00d"
        /\ transfer.fromLabel = UnlabeledMarker
        /\ transfer.txType = "transfer"
        /\ transfer.valueUsd # MissingValue
        /\ \/ isValidPrivateWallet(transfer.toAddress)
           \/ (transfer.valueUsd = 5000 /\ transfer.blockTimestamp = 1) }

\* The transfers of the runs that look at the candidate filter: every
\* label, sender and value, a plain, a swap and an aggregate type, to a
\* private wallet or to a router, at one time.
FilteredTransfers ==
    { transfer \in TokenTransfersResponse :
        /\ transfer.toAddress.leadingZeros = 0
        /\ transfer.txType \in {"transfer", "simpleSwap", "multicall"}
        /\ transfer.blockTimestamp = 1
        /\ \E sender \in Senders : /\ transfer.fromAddress = sender.fromAddress
                                    /\ transfer.fromLabel = sender.fromLabel }

\* AddressTransactionsResponse: when, and the symbol of the token received.
Transaction == [blockTimestamp : Times, received : {"TOK", "OTHER"}]

\* AddressBalancesResponse
Balance == [tokenAddress : {"0xaaa", "0xBBB"}, usdValue : {1, 5}]

\* a historical balance snapshot
HistoricalBalance == [usdValue : {1, 5}]

\* The upstream data of one run, and findFreshWalletsForSpecificToken about
\* to fetch the transfers.
VerifyInit ==
    /\ ScannerIdle
    /\ apiKeyValid = TRUE
    /\ MergeIdle
    /\ GatewayIdle
    /\ CacheIdle
    /\ StartupIdle
    /\ WindowIdle
    /\ SearchIdle
    /\ ResolveIdle
    /\ chain \in Chains
    /\ transfers \in SeqsUpTo(Transfer, MaxTransfers)
    /\ walletTransactions \in SeqsUpTo(Transaction, MaxRecords)
    /\ walletBalances \in SeqsUpTo(Balance, MaxRecords)
    /\ walletHistorical \in SeqsUpTo(HistoricalBalance, MaxRecords)
    /\ vpc = "transfers"
    /\ significantIncomingTransfers = <<>>
    /\ verified = <<>>
    /\ current = [txFailed |-> FALSE, balFailed |-> FALSE, histFailed |-> FALSE]
    /\ freshWallets = <<>>

upstreamVars == <<chain, transfers, walletTransactions, walletBalances, walletHistorical>>

\* const usdValue = transfer.valueUsd || 0
usdValueOf(transfer) ==
    IF transfer.valueUsd = MissingValue THEN 0 ELSE transfer.valueUsd

\* usdValue >= minDepositUSD
meetsMinDepositAlways(usdValue) == usdValue >= 0

meetsMinDeposit(usdValue) == usdValue >= minDepositUSD

\* The filter of findFreshWalletsForSpecificToken.
IsSignificantIncomingFromWallets(transfer) ==
    /\ meetsMinDeposit(usdValueOf(transfer))
    /\ isValidPrivateWallet(transfer.toAddress)
    /\ transfer.fromLabel = UnlabeledMarker

IsSignificantIncoming(transfer) ==
    /\ meetsMinDeposit(usdValueOf(transfer))
    /\ isValidPrivateWallet(transfer.toAddress)

\* getTokenTransfers answered (all pages) or failed; on failure the catch of
\* findFreshWalletsForSpecificToken returns the empty list.
getTokenTransfers ==
    /\ vpc = "transfers"
    /\ \E ok \in BOOLEAN :
         IF ok
         THEN LET significant == SelectSeq(transfers, IsSignificantIncoming)
              IN  /\ significantIncomingTransfers' = significant
                  /\ vpc' = IF significant = <<>> THEN "done" ELSE "transactions"
         ELSE /\ significantIncomingTransfers' = <<>>
              /\ vpc' = "done"
    /\ UNCHANGED <<verified, current, freshWallets>>
    /\ UNCHANGED upstreamVars
    /\ UNCHANGED nonVerifyVars

\* The transfer whose recipient is being verified.
Candidate == significantIncomingTransfers[Len(verified) + 1]

\* verifyWalletWasTrulyFreshBeforeTransfer returned wasTrulyFresh for the
\* current candidate: a fresh wallet is pushed, the loop goes on.
Conclude(wasTrulyFresh, calls) ==
    /\ verified' = Append(verified, [txFailed |-> calls.txFailed,
                                     balFailed |-> calls.balFailed,
                                     histFailed |-> calls.histFailed,
                                     fresh |-> wasTrulyFresh])
    /\ freshWallets' =
         IF wasTrulyFresh
         THEN Append(freshWallets, [wallet |-> Candidate.toAddress.text,
                                    chain |-> chain,
                                    initDepositUSD |-> Candidate.valueUsd])
         ELSE freshWallets
    /\ current' = [txFailed |-> FALSE, balFailed |-> FALSE, histFailed |-> FALSE]
    /\ vpc' = IF Len(verified) + 1 = Len(significantIncomingTransfers)
              THEN "done" ELSE "transactions"

\* txDate.isBefore(transferDate): strictly earlier.
isSameOrBefore(txDate, transferDate) == txDate <= transferDate

isBefore(txDate, transferDate) == txDate < transferDate

\* previousTransactions: the transactions strictly before the transfer.
previousTransactionsNotAfter(allTransactions, transferTimestamp) ==
    SelectSeq(allTransactions, LAMBDA tx : tx.blockTimestamp > transferTimestamp)

previousTransactions(allTransactions, transferTimestamp) ==
    SelectSeq(allTransactions, LAMBDA tx : isBefore(tx.blockTimestamp, transferTimestamp))

\* otherTokens: balances of another token worth more than $1.
otherTokensCaseSensitive(currentBalances) ==
    SelectSeq(currentBalances,
              LAMBDA balance : /\ balance.tokenAddress # tokenAddress
                               /\ balance.usdValue > DustUSD)

otherTokens(currentBalances) ==
    SelectSeq(currentBalances,
              LAMBDA balance : /\ toLowerCase(balance.tokenAddress) # toLowerCase(tokenAddress)
                               /\ balance.usdValue > DustUSD)

\* hadHistoricalBalance: some snapshot worth more than $1.
hadHistoricalBalance(historicalBalances) ==
    \E i \in 1..Len(historicalBalances) : historicalBalances[i].usdValue > DustUSD

\* What verification answers when all its checks passed.
verifiedFresh == TRUE

\* pagination.recordsPerPage of the three profiler calls of the verification
profilerRecordsPerPage == 100

\* What getAddressTransactions answers with: page 1 of the wallet's history,
\* recordsPerPage records at most.  No further page is asked for.
firstPageOfTransactions(history) ==
    SubSeq(history, 1, IF Len(history) < profilerRecordsPerPage
                       THEN Len(history) ELSE profilerRecordsPerPage)

\* Steps 1-3 of verifyWalletWasTrulyFreshBeforeTransfer: the private-wallet
\* check, getAddressTransactions and the look for earlier transactions.  A
\* failed call lands in the outer catch: not fresh.
getAddressTransactions ==
    /\ vpc = "transactions"
    /\ IF ~isValidPrivateWallet(Candidate.toAddress)
       THEN Conclude(FALSE, current)
       ELSE \E ok \in BOOLEAN :
              IF ~ok
              THEN Conclude(FALSE, [current EXCEPT !.txFailed = TRUE])
              ELSE IF Len(previousTransactions(firstPageOfTransactions(walletTransactions),
                                                  Candidate.blockTimestamp)) > 0
                   THEN Conclude(FALSE, current)
                   ELSE /\ vpc' = "balances"
                        /\ UNCHANGED <<verified, current, freshWallets>>
    /\ UNCHANGED significantIncomingTransfers
    /\ UNCHANGED upstreamVars
    /\ UNCHANGED nonVerifyVars

\* Step 4: getAddressBalances and the look for other tokens.  A failed call
\* lands in the outer catch: not fresh.
getAddressBalances ==
    /\ vpc = "balances"
    /\ \E ok \in BOOLEAN :
         IF ~ok
         THEN Conclude(FALSE, [current EXCEPT !.balFailed = TRUE])
         ELSE IF Len(otherTokens(walletBalances)) > 0
              THEN Conclude(FALSE, current)
              ELSE /\ vpc' = "historical"
                   /\ UNCHANGED <<verified, current, freshWallets>>
    /\ UNCHANGED significantIncomingTransfers
    /\ UNCHANGED upstreamVars
    /\ UNCHANGED nonVerifyVars

\* Step 5: getAddressHistoricalBalances inside its own try: a failed call is
\* logged and verification continues to "return true".
getAddressHistoricalBalances ==
    /\ vpc = "historical"
    /\ \E ok \in BOOLEAN :
         IF ~ok
         THEN Conclude(verifiedFresh, [current EXCEPT !.histFailed = TRUE])
         ELSE IF hadHistoricalBalance(walletHistorical)
              THEN Conclude(FALSE, current)
              ELSE Conclude(verifiedFresh, current)
    /\ UNCHANGED significantIncomingTransfers
    /\ UNCHANGED upstreamVars
    /\ UNCHANGED nonVerifyVars

VerifyNext ==
    \/ getTokenTransfers
    \/ getAddressTransactions
    \/ getAddressBalances
    \/ getAddressHistoricalBalances

VerifySpec == VerifyInit /\ [][VerifyNext]_vars

\* findFreshWalletsForSpecificToken about to fetch transfers of every kind,
\* to a wallet the upstream knows nothing else about.
FilterInit ==
    /\ ScannerIdle
    /\ apiKeyValid = TRUE
    /\ MergeIdle
    /\ GatewayIdle
    /\ CacheIdle
    /\ StartupIdle
    /\ WindowIdle
    /\ SearchIdle
    /\ ResolveIdle
    /\ chain = "ethereum"
    /\ transfers \in SeqsUpTo(FilteredTransfers, MaxTransfers)
    /\ walletTransactions = <<>>
    /\ walletBalances = <<>>
    /\ walletHistorical = <<>>
    /\ vpc = "transfers"
    /\ significantIncomingTransfers = <<>>
    /\ verified = <<>>
    /\ current = [txFailed |-> FALSE, balFailed |-> FALSE, histFailed |-> FALSE]
    /\ freshWallets = <<>>

FilterNext == VerifyNext

FilterSpec == FilterInit /\ [][FilterNext]_vars

\* The transfers of the runs that look at long histories: deposits of $5000
\* from a private wallet to one private wallet.
HistoryTransfers ==
    { transfer \in Transfer :
        /\ transfer.toAddress.text = "0xbeef00000000000000000000000000000000cafe"
        /\ transfer.valueUsd = 5000 }

\* n transactions of the token under evaluation at the latest instant.
RECURSIVE LatestTransactions(_)
LatestTransactions(n) ==
    IF n = 0 THEN <<>>
    ELSE Append(LatestTransactions(n - 1), [blockTimestamp |-> 2, received |-> "TOK"])

\* How many such transactions the upstream lists before the others: none,
\* one short of a page, a whole page.
PageFills == {0, profilerRecordsPerPage - 1, profilerRecordsPerPage}

\* findFreshWalletsForSpecificToken about to fetch the transfers, the
\* recipient's history running up to and past one page of records.
HistoryInit ==
    /\ ScannerIdle
    /\ apiKeyValid = TRUE
    /\ MergeIdle
    /\ GatewayIdle
    /\ CacheIdle
    /\ StartupIdle
    /\ WindowIdle
    /\ SearchIdle
    /\ ResolveIdle
    /\ chain = "ethereum"
    /\ transfers \in SeqsUpTo(HistoryTransfers, MaxTransfers)
    /\ \E n \in PageFills : \E older \in SeqsUpTo(Transaction, MaxRecords) :
          walletTransactions = LatestTransactions(n) \o older
    /\ walletBalances \in {<<>>} \cup {<<balance>> : balance \in Balance}
    /\ walletHistorical \in {<<>>} \cup {<<balance>> : balance \in HistoricalBalance}
    /\ vpc = "transfers"
    /\ significantIncomingTransfers = <<>>
    /\ verified = <<>>
    /\ current = [txFailed |-> FALSE, balFailed |-> FALSE, histFailed |-> FALSE]
    /\ freshWallets = <<>>

HistoryNext == VerifyNext

HistorySpec == HistoryInit /\ [][HistoryNext]_vars

(***************************************************************************)
(* CacheService: get and getOrSet over node-cache.                         *)
(***************************************************************************)
\* this.cache.get(key): the value of an entry that has not expired, else
\* undefined.  An entry lives up to and including its expiry instant.
cacheGet(k) ==
    IF cache[k] = Absent \/ cache[k].expiresAt < cacheClock
    THEN "undefined"
    ELSE cache[k].value

\* The store after this.cache.get(key): an expired entry is deleted on read.
cacheAfterGet(k) ==
    IF cache[k] # Absent /\ cache[k].expiresAt < cacheClock
    THEN [cache EXCEPT ![k] = Absent]
    ELSE cache

\* CacheService.set: the entry is replaced, value and expiry.
cacheSetKeepsExpiry(store, k, value, ttl) ==
    [store EXCEPT ![k] =
        [value |-> value,
         expiresAt |-> IF store[k] = Absent THEN cacheClock + ttl
                       ELSE store[k].expiresAt]]

cacheSet(store, k, value, ttl) ==
    [store EXCEPT ![k] = [value |-> value, expiresAt |-> cacheClock + ttl]]

\* if (value !== undefined) this.set(key, value, ttl)
setIfDefinedSkipped(store, k, value, ttl) == store

setIfDefined(store, k, value, ttl) ==
    IF value # "undefined" THEN cacheSet(store, k, value, ttl) ELSE store

\* The store after the catch of getOrSet: the error is logged, undefined is
\* returned, nothing is set or deleted.
storeAfterCatchEvicts(store, k) == [store EXCEPT ![k] = Absent]

storeAfterCatch(store, k) == store

\* The latest miss on k that completed, if its TTL has not run out.
LiveMiss(k) ==
    IF lastMiss[k] # NoMiss /\ cacheClock <= lastMiss[k].until
    THEN lastMiss[k]
    ELSE NoMiss

\* Another flow is inside its factory for the same k.
Racing(p, k) ==
    {q \in Callers \ {p} : caller[q].pc = "factory" /\ caller[q].key = k}

\* getOrSet(key, factory, ttl) up to its first await: a hit returns the
\* cached value, a miss invokes the factory and awaits it.
getOrSet(p, k, ttl) ==
    /\ caller[p].pc = "idle"
    /\ called < MaxCalls
    /\ called' = called + 1
    /\ LET value == cacheGet(k)
           call == [IdleCaller EXCEPT !.op = "getOrSet", !.key = k, !.ttl = ttl,
                                      !.sawMiss = LiveMiss(k)]
       IN  IF value # "undefined"
           THEN caller' = [caller EXCEPT ![p] = [call EXCEPT !.result = value,
                                                            !.returnedAt = cacheClock]]
           ELSE caller' =
                  [q \in Callers |->
                     IF q = p
                     THEN [call EXCEPT !.pc = "factory", !.missed = TRUE,
                                       !.factoryCalls = 1,
                                       !.racedWith =
                                           IF Racing(p, k) = {} THEN "none"
                                           ELSE CHOOSE r \in Racing(p, k) : TRUE]
                     ELSE IF q \in Racing(p, k)
                          THEN [caller[q] EXCEPT !.racedWith = p]
                          ELSE caller[q]]
    /\ cache' = cacheAfterGet(k)
    /\ UNCHANGED <<cacheClock, lastMiss>>
    /\ UNCHANGED nonCacheVars

\* The awaited factory settled: with a value, with undefined, or it threw
\* (the catch of getOrSet returns undefined).
factorySettles(p) ==
    /\ caller[p].pc = "factory"
    /\ \E outcome \in Values \cup {"undefined", "threw"} :
         LET value == IF outcome = "threw" THEN "undefined" ELSE outcome
             k == caller[p].key
             store == IF outcome = "threw" THEN storeAfterCatch(cache, k)
                      ELSE setIfDefined(cache, k, value, caller[p].ttl)
         IN  /\ cache' = store
             /\ caller' = [caller EXCEPT ![p].pc = "idle",
                                          ![p].produced = outcome,
                                          ![p].result = value,
                                          ![p].returnedAt = cacheClock]
             /\ lastMiss' = [lastMiss EXCEPT ![k] =
                                [value |-> value, until |-> cacheClock + caller[p].ttl]]
    /\ UNCHANGED <<cacheClock, called>>
    /\ UNCHANGED nonCacheVars

\* CacheService.get(key)
get(p, k) ==
    /\ caller[p].pc = "idle"
    /\ called < MaxCalls
    /\ called' = called + 1
    /\ caller' = [caller EXCEPT ![p] =
                     [IdleCaller EXCEPT !.op = "get", !.key = k,
                                        !.sawMiss = LiveMiss(k),
                                        !.result = cacheGet(k),
                                        !.returnedAt = cacheClock]]
    /\ cache' = cacheAfterGet(k)
    /\ UNCHANGED <<cacheClock, lastMiss>>
    /\ UNCHANGED nonCacheVars

\* A second passes.
CacheTick ==
    /\ cacheClock < MaxCacheClock
    /\ cacheClock' = cacheClock + 1
    /\ UNCHANGED <<cache, caller, lastMiss, called>>
    /\ UNCHANGED nonCacheVars

CacheInit == ScannerIdle /\ apiKeyValid = TRUE /\ MergeIdle /\ GatewayIdle /\ VerifyIdle /\ CacheIdle /\ StartupIdle /\ WindowIdle /\ SearchIdle /\ ResolveIdle

CacheNext ==
    \/ \E p \in Callers, k \in Keys, ttl \in TTLs : getOrSet(p, k, ttl)
    \/ \E p \in Callers : factorySettles(p)
    \/ \E p \in Callers, k \in Keys : get(p, k)
    \/ CacheTick

CacheSpec == CacheInit /\ [][CacheNext]_vars

(***************************************************************************)
(* Token resolution: NansenApiClient.findTokensForTickers.                 *)
(***************************************************************************)
\* TokenScreenerResponse, the fields findTokensForTickers reads.
ScreenedTokens(c) ==
    [tokenSymbol : {"TOK", "tok", "OTHER"}, tokenAddressHex : {"0xAAA", "0xBBB"},
     chain : {c}]

\* The orders the configured chains can be passed in.
ChainOrders == {<<"ethereum", "bnb">>, <<"bnb", "ethereum">>}

\* The tokens of one screener answer whose lower-cased symbol is a ticker,
\* pushed onto tokenMap in the order of the answer.
RECURSIVE matchTokens(_, _)
matchTokens(map, tokens) ==
    IF tokens = <<>> THEN map
    ELSE LET token == Head(tokens)
             tickerLower == toLowerCase(token.tokenSymbol)
         IN  IF \E i \in 1..Len(tickers) : tickers[i] = tickerLower
             THEN matchTokens(
                      [map EXCEPT ![tickerLower] =
                          Append(@, [address |-> token.tokenAddressHex,
                                     chain |-> token.chain,
                                     symbol |-> token.tokenSymbol])],
                      Tail(tokens))
             ELSE matchTokens(map, Tail(tokens))

\* The chains still to query after the call for the first of them failed:
\* the catch sits inside the loop, the loop goes on.
pendingAfterFailureAborts(chainsLeft) == <<>>

pendingAfterFailure(chainsLeft) == Tail(chainsLeft)

\* findFreshWallets calls findTokensForTickers(tickers, chains).
findTokensForTickers ==
    /\ rpc = "idle"
    /\ resolves < MaxResolves
    /\ \E order \in ChainOrders :
         /\ chainsArg' = order
         /\ pending' = order
    /\ rpc' = "querying"
    /\ tokenMap' = EmptyTokenMap
    /\ queried' = <<>>
    /\ resolves' = resolves + 1
    /\ callsMade' = Append(callsMade, 0)
    /\ UNCHANGED <<screener, returned>>
    /\ UNCHANGED nonResolveVars

\* One turn of the loop over the chains: getTokenScreener answers, and the
\* matching tokens are pushed, or fails, and the chain is skipped.
getTokenScreener ==
    /\ rpc = "querying"
    /\ pending # <<>>
    /\ callsMade' = [callsMade EXCEPT ![resolves] = @ + 1]
    /\ \E ok \in BOOLEAN :
         /\ queried' = Append(queried, [chain |-> Head(pending), ok |-> ok])
         /\ IF ok
            THEN /\ tokenMap' = matchTokens(tokenMap, screener[Head(pending)])
                 /\ pending' = Tail(pending)
            ELSE /\ tokenMap' = tokenMap
                 /\ pending' = pendingAfterFailure(pending)
    /\ UNCHANGED <<screener, chainsArg, rpc, resolves, returned>>
    /\ UNCHANGED nonResolveVars

\* The loop is over: findTokensForTickers returns tokenMap.
findTokensForTickersReturns ==
    /\ rpc = "querying"
    /\ pending = <<>>
    /\ rpc' = "idle"
    /\ returned' = tokenMap
    /\ UNCHANGED <<screener, chainsArg, pending, tokenMap, queried, resolves, callsMade>>
    /\ UNCHANGED nonResolveVars

ResolveInit ==
    /\ ScannerIdle
    /\ apiKeyValid = TRUE
    /\ MergeIdle
    /\ GatewayIdle
    /\ VerifyIdle
    /\ CacheIdle
    /\ StartupIdle
    /\ WindowIdle
    /\ SearchIdle
    /\ screener \in [Chains -> UNION {SeqsUpTo(ScreenedTokens(c), MaxTokens) : c \in Chains}]
    /\ \A c \in Chains : \A i \in 1..Len(screener[c]) : screener[c][i].chain = c
    /\ chainsArg = <<>>
    /\ rpc = "idle"
    /\ pending = <<>>
    /\ tokenMap = EmptyTokenMap
    /\ queried = <<>>
    /\ resolves = 0
    /\ callsMade = <<>>
    /\ returned = EmptyTokenMap

ResolveNext ==
    \/ findTokensForTickers
    \/ getTokenScreener
    \/ findTokensForTickersReturns

ResolveSpec == ResolveInit /\ [][ResolveNext]_vars

GatewayInit ==
    ScannerIdle /\ apiKeyValid = TRUE /\ MergeIdle /\ GatewayIdle /\ VerifyIdle /\ CacheIdle /\ StartupIdle /\ WindowIdle /\ SearchIdle /\ ResolveIdle

GatewaySpec == GatewayInit /\ [][GatewayNext]_vars

(***************************************************************************)
(* Process start: ConfigService.loadConfig, Application.run.               *)
(***************************************************************************)
\* NANSEN_API_KEY values: absent, too short, ten characters, the placeholder
\* of the .env template, a real key.
ApiKeys ==
    { [text |-> "", length |-> 0],
      [text |-> "short", length |-> 5],
      [text |-> "0123456789", length |-> 10],
      [text |-> "your_api_key_here", length |-> 17],
      [text |-> "key-of-32-characters", length |-> 32] }

\* The environment the process is started with.  CHAINS stands for the
\* required strings; "" is a variable that is not set.
Env == [CHAINS : {"", "ethereum,bnb"},
        INTERVAL_SECONDS : {30, 60, 120, 86400},
        NANSEN_API_KEY : ApiKeys,
        NODE_ENV : {"dev", "production"}]

\* configSchema.validate: CHAINS required, INTERVAL_SECONDS min(60),
\* NANSEN_API_KEY a string of at least 10 characters.
configSchemaAccepts(e) ==
    /\ e.CHAINS # ""
    /\ e.INTERVAL_SECONDS >= 60
    /\ e.NANSEN_API_KEY.length >= 10

\* ConfigService.validateApiKey
validateApiKey(apiKey) ==
    apiKey.text # "your_api_key_here" /\ apiKey.length > 10

\* new ConfigService() when the module is loaded: loadConfig throws on a
\* rejected environment and the process ends before Application exists.
loadConfig ==
    /\ app = "loading"
    /\ app' = IF configSchemaAccepts(env) THEN "configured" ELSE "failed"
    /\ UNCHANGED <<env, validating>>
    /\ UNCHANGED <<scannerVars, mergeVars, gatewayVars, verifyVars, cacheVars,
                   resolveVars, windowVars, searchVars>>

\* Application.run: initialize, then start.  The initialize that validates
\* throws on a key validateApiKey rejects; the other one logs the
\* configuration only.  start calls scanner.start(): the job is scheduled
\* and the initial runScan is launched.
ApplicationRun ==
    /\ app = "configured"
    /\ IF validating /\ ~validateApiKey(env.NANSEN_API_KEY)
       THEN /\ app' = "failed"
            /\ UNCHANGED scannerVars
       ELSE /\ app' = "started"
            /\ job' = TRUE
            /\ cronTasks' = cronTasks + 1
            /\ runScan
            /\ UNCHANGED apiKeyValid
    /\ UNCHANGED <<env, validating>>
    /\ UNCHANGED <<mergeVars, gatewayVars, verifyVars, cacheVars, resolveVars,
                   windowVars, searchVars>>

\* The process is about to load its configuration; main.ts holds two
\* Application classes, one whose initialize validates and one whose
\* initialize does not: either can be the one that runs.
StartupInit ==
    /\ env \in Env
    /\ validating \in BOOLEAN
    /\ app = "loading"
    /\ ScannerIdle
    /\ apiKeyValid = validateApiKey(env.NANSEN_API_KEY)
    /\ MergeIdle
    /\ GatewayIdle
    /\ VerifyIdle
    /\ CacheIdle
    /\ ResolveIdle
    /\ WindowIdle
    /\ SearchIdle

StartupNext ==
    \/ loadConfig
    \/ ApplicationRun
    \/ CronTick
    \/ stop
    \/ \E s \in ScanIds : FindFreshWalletsSettles(s)
    \/ \E s \in ScanIds : SmartMoneySettles(s)
    \/ \E s \in ScanIds : ScheduledScanReturns(s)

StartupSpec == StartupInit /\ [][StartupNext]_vars

(***************************************************************************)
(* The scan window of the token search against the cron schedule.          *)
(***************************************************************************)
\* the cron schedule has minute granularity, s
CronStep == 60

\* fromDate of findFreshWalletsForSpecificToken: how far back the transfer
\* query reaches, in seconds.
windowSeconds(e) ==
    IF e.NODE_ENV = "dev" THEN e.INTERVAL_SECONDS + 60 ELSE 86400

\* convertIntervalToCron: every n minutes, every n hours, or daily.
convertIntervalToCron(intervalSeconds) ==
    LET intervalMinutes == intervalSeconds \div 60
        intervalHours == intervalMinutes \div 60
    IN  IF intervalMinutes < 60
        THEN [unit |-> "minute", every |-> intervalMinutes]
        ELSE IF intervalHours < 24
             THEN [unit |-> "hour", every |-> intervalHours]
             ELSE [unit |-> "day", every |-> 1]

\* node-cron: whether the expression fires at second t of the timeline
\* (t = 0 is midnight UTC).
cronFires(cronExpression, t) ==
    CASE cronExpression.unit = "minute" ->
            /\ t % 60 = 0
            /\ ((t \div 60) % 60) % cronExpression.every = 0
      [] cronExpression.unit = "hour" ->
            /\ t % 3600 = 0
            /\ ((t \div 3600) % 24) % cronExpression.every = 0
      [] OTHER -> t % 86400 = 0

\* The configurations the window is looked at with: accepted ones.
WindowEnv ==
    { e \in Env : configSchemaAccepts(e) /\ validateApiKey(e.NANSEN_API_KEY) }

\* The scanner is constructed, the clock is at a minute boundary.
WindowInit ==
    /\ env \in WindowEnv
    /\ validating = FALSE
    /\ app = "configured"
    /\ ScannerIdle
    /\ apiKeyValid = TRUE
    /\ MergeIdle
    /\ GatewayIdle
    /\ VerifyIdle
    /\ CacheIdle
    /\ ResolveIdle
    /\ wallClock = 0
    /\ windows = <<>>
    /\ fetched = FALSE
    /\ SearchIdle

\* scanner.start() at second 0.
WindowStart ==
    /\ ~job
    /\ start

\* A minute passes; when the cron expression fires, the callback runs
\* runScan, which starts a scan or skips.
MinutePasses ==
    /\ wallClock + CronStep <= MaxWallClock
    /\ wallClock' = wallClock + CronStep
    /\ IF job /\ cronFires(convertIntervalToCron(env.INTERVAL_SECONDS), wallClock')
       THEN /\ runScan
            /\ fetched' = IF runScanSkips(isRunning) THEN fetched ELSE FALSE
            /\ UNCHANGED <<job, cronTasks, apiKeyValid>>
       ELSE UNCHANGED <<scannerVars, fetched>>
    /\ UNCHANGED <<env, validating, app, windows>>
    /\ UNCHANGED <<mergeVars, gatewayVars, verifyVars, cacheVars, resolveVars,
                   searchVars>>

\* The token search of the scan in slot s asks for the token's transfers:
\* from fromDate, computed now, to now.
getTokenTransfersOfWindow(s) ==
    /\ scans[s].kind = "scheduled"
    /\ scans[s].regular = "pending"
    /\ ~fetched
    /\ windows' = Append(windows, [from |-> wallClock - windowSeconds(env),
                                   to |-> wallClock])
    /\ fetched' = TRUE
    /\ UNCHANGED <<env, validating, app, wallClock>>
    /\ UNCHANGED <<scannerVars, mergeVars, gatewayVars, verifyVars, cacheVars,
                   resolveVars, searchVars>>

\* The token search settles once it has fetched the transfers.
FindFreshWalletsSettlesFetched(s) ==
    /\ fetched
    /\ FindFreshWalletsSettles(s)

WindowNext ==
    \/ WindowStart
    \/ MinutePasses
    \/ \E s \in ScanIds : getTokenTransfersOfWindow(s)
    \/ \E s \in ScanIds : FindFreshWalletsSettlesFetched(s)
    \/ \E s \in ScanIds : SmartMoneySettles(s)
    \/ \E s \in ScanIds : ScheduledScanReturns(s)

WindowSpec == WindowInit /\ [][WindowNext]_vars

(***************************************************************************)
(* FreshWalletService.findFreshWallets: the loop over the resolved tokens, *)
(* the pages of each token's transfers, the verification of each           *)
(* candidate, and the merge of performScan.                                *)
(***************************************************************************)
\* const recordsPerPage = 500
recordsPerPage == 500

\* The resolved tokens of the configured chains, in iteration order.
ResolvedTokens ==
    << [address |-> "0xAAA", chain |-> "ethereum", symbol |-> "TOK"],
       [address |-> "0xaaa", chain |-> "bnb", symbol |-> "tok"],
       [address |-> "0xBBB", chain |-> "ethereum", symbol |-> "TOK"],
       [address |-> "0xbbb", chain |-> "bnb", symbol |-> "TOK"] >>

\* The lengths of the pages the upstream answers with.
ChunkLengths == {0, 499, recordsPerPage}

\* The transfers of a page that are spelled out: to the private wallet or to
\* a router, below or above the threshold.  The other transfers of the page
\* are below the threshold.
SearchTransfers ==
    { transfer \in TokenTransfersResponse :
        /\ transfer.toAddress.leadingZeros = 0
        /\ transfer.toLabel = UnlabeledMarker
        /\ transfer.fromAddress = "0xf00d00000000000000000000000000000000d00d"
        /\ transfer.fromLabel = UnlabeledMarker
        /\ transfer.txType = "transfer"
        /\ transfer.valueUsd # MissingValue
        /\ transfer.blockTimestamp = 1 }

\* findFreshWallets enters its loop over the tokens of filteredTokenMap.
SearchInit ==
    /\ \E n \in 1..MaxSearchTokens : filteredTokens = SubSeq(ResolvedTokens, 1, n)
    /\ spc = "paging"
    /\ tokenIndex = 1
    /\ tokenRun = NewTokenRun
    /\ searchFreshWallets = <<>>
    /\ tokenResults = <<>>
    /\ searchOutput = <<>>
    /\ budget = [fullPages |-> 0, listed |-> 0]
    /\ ScannerIdle
    /\ apiKeyValid = TRUE
    /\ MergeIdle
    /\ GatewayIdle
    /\ VerifyIdle
    /\ CacheIdle
    /\ ResolveIdle
    /\ StartupIdle
    /\ WindowIdle

\* The spelled-out transfers of the chunks, in order.
RECURSIVE Listed(_)
Listed(chunks) ==
    IF chunks = <<>> THEN <<>> ELSE Head(chunks).listed \o Listed(Tail(chunks))

\* if (transfersChunk.length < recordsPerPage) break
lastPageOrFull(length) == length <= recordsPerPage

lastPage(length) == length < recordsPerPage

\* Where the loop over the tokens goes after a token whose processing
\* failed: the error was caught, the next token is taken.
nextTokenAfterFailureAborts(index) == Len(filteredTokens) + 1

nextTokenAfterFailure(index) == index + 1

\* findFreshWalletsForSpecificToken returns its freshWallets: findFreshWallets
\* pushes them and goes on with the next token; after the last one it
\* deduplicates, sorts and returns.
TokenReturns(run) ==
    LET next == IF run.failed THEN nextTokenAfterFailure(tokenIndex)
                ELSE tokenIndex + 1
    IN  /\ searchFreshWallets' = searchFreshWallets \o run.freshWallets
        /\ tokenResults' = Append(tokenResults,
                                  [token |-> tokenIndex, failed |-> run.failed,
                                   freshWallets |-> run.freshWallets])
        /\ tokenIndex' = next
        /\ IF next > Len(filteredTokens)
           THEN /\ spc' = "settled"
                /\ tokenRun' = run
           ELSE /\ spc' = "paging"
                /\ tokenRun' = NewTokenRun

\* One turn of the pagination loop: getTokenTransfers for the next page.  A
\* call that throws lands in the catch of the function, which returns the
\* (empty) freshWallets.  An answer is pushed on transfers; after a short
\* page the loop ends and the transfers are filtered.
getTokenTransfersPage ==
    /\ spc = "paging"
    /\ LET page == Len(tokenRun.requested) + 1
           asked == [tokenRun EXCEPT !.requested = Append(@, page)]
       IN  \/ /\ TokenReturns([asked EXCEPT !.failed = TRUE])
              /\ UNCHANGED budget
           \/ \E length \in ChunkLengths :
                /\ length = recordsPerPage => budget.fullPages < MaxFullPages
                /\ \E listed \in SeqsUpTo(SearchTransfers, MaxListed - budget.listed) :
                     /\ Len(listed) <= length
                     /\ budget' = [fullPages |-> budget.fullPages
                                                   + IF length = recordsPerPage THEN 1 ELSE 0,
                                   listed |-> budget.listed + Len(listed)]
                     /\ LET transfersChunk == [page |-> page, length |-> length,
                                               listed |-> listed]
                            pushed == [asked EXCEPT
                                         !.answers = Append(@, transfersChunk),
                                         !.transfers = Append(@, transfersChunk)]
                        IN  IF lastPage(length)
                            THEN LET significant ==
                                       SelectSeq(Listed(pushed.transfers),
                                                 IsSignificantIncoming)
                                     run == [pushed EXCEPT
                                               !.filteredFrom = pushed.transfers,
                                               !.significant = significant]
                                 IN  IF significant = <<>>
                                     THEN TokenReturns(run)
                                     ELSE /\ tokenRun' = run
                                          /\ spc' = "verifying"
                                          /\ UNCHANGED <<searchFreshWallets,
                                                         tokenResults, tokenIndex>>
                            ELSE /\ tokenRun' = pushed
                                 /\ UNCHANGED <<spc, searchFreshWallets,
                                                tokenResults, tokenIndex>>
    /\ UNCHANGED <<filteredTokens, searchOutput>>
    /\ UNCHANGED <<scannerVars, mergeVars, gatewayVars, verifyVars, cacheVars,
                   resolveVars, startupVars, windowVars>>

\* One turn of the loop over significantIncomingTransfers: verification
\* answers fresh or not fresh, or its call throws into the catch of the
\* loop body.
verifyCandidate ==
    /\ spc = "verifying"
    /\ LET transfer == tokenRun.significant[tokenRun.checked + 1]
           entry == [wallet |-> transfer.toAddress.text,
                     chain |-> filteredTokens[tokenIndex].chain,
                     initDepositUSD |-> transfer.valueUsd]
       IN  \E outcome \in {"fresh", "notFresh", "threw"} :
             LET run == [tokenRun EXCEPT
                           !.checked = @ + 1,
                           !.freshWallets = IF outcome = "fresh"
                                            THEN Append(@, entry) ELSE @,
                           !.failed = @ \/ outcome = "threw"]
             IN  IF run.checked = Len(run.significant)
                 THEN TokenReturns(run)
                 ELSE /\ tokenRun' = run
                      /\ UNCHANGED <<spc, searchFreshWallets, tokenResults,
                                     tokenIndex>>
    /\ UNCHANGED <<filteredTokens, searchOutput, budget>>
    /\ UNCHANGED <<scannerVars, mergeVars, gatewayVars, verifyVars, cacheVars,
                   resolveVars, startupVars, windowVars>>

\* findFreshWallets returns uniqueWallets and performScan merges them with
\* what the smart-money search fulfilled with.
performScanMerges ==
    /\ spc = "settled"
    /\ \E smart \in SmartFoundLists :
         LET uniqueWallets ==
                 SortByDepositDesc(ServiceRemoveDuplicateWallets(searchFreshWallets))
         IN  searchOutput' =
                 SortByDepositDesc(ScannerRemoveDuplicateWallets(uniqueWallets \o smart))
    /\ spc' = "done"
    /\ UNCHANGED <<filteredTokens, tokenIndex, tokenRun, searchFreshWallets,
                   tokenResults, budget>>
    /\ UNCHANGED <<scannerVars, mergeVars, gatewayVars, verifyVars, cacheVars,
                   resolveVars, startupVars, windowVars>>

SearchNext ==
    \/ getTokenTransfersPage
    \/ verifyCandidate
    \/ performScanMerges

SearchSpec == SearchInit /\ [][SearchNext]_vars

(***************************************************************************)
(* One scan from the upstream data to its output: the token path for one   *)
(* token and findFreshWalletsWithSmartMoney side by side, then the merge   *)
(* of performScan.                                                         *)
(***************************************************************************)
\* The transfers of the runs that look at the deposits of the output: to one
\* private wallet, without a value, below and above the threshold.
DepositTransfers ==
    { transfer \in TokenTransfersResponse :
        /\ transfer.toAddress.text = "0xbeef00000000000000000000000000000000cafe"
        /\ transfer.toLabel = UnlabeledMarker
        /\ transfer.fromAddress = "0xf00d00000000000000000000000000000000d00d"
        /\ transfer.fromLabel = UnlabeledMarker
        /\ transfer.txType = "transfer"
        /\ transfer.blockTimestamp = 1 }

\* SmartMoneyDexTradesResponse: who traded and for how much.
SmartMoneyDexTradesResponse ==
    [address : {"0xbeef00000000000000000000000000000000cafe",
                "0xfeed00000000000000000000000000000000f00d"},
     valueInUsd : {600, 5000}]

\* Array.from(uniqueAddresses).slice(0, 50)
analysedAddressLimit == 50

\* uniqueAddresses: the addresses of the trades, each once, in order of
\* first appearance.
RECURSIVE uniqueAddresses(_)
uniqueAddresses(smartTrades) ==
    IF smartTrades = <<>> THEN <<>>
    ELSE LET front == uniqueAddresses(Front(smartTrades))
             address == Last(smartTrades).address
         IN  IF \E i \in 1..Len(front) : front[i] = address
             THEN front ELSE Append(front, address)

\* The addresses the loop analyses.
analysedAddresses(smartTrades) ==
    LET unique == uniqueAddresses(smartTrades)
    IN  SubSeq(unique, 1, IF Len(unique) < analysedAddressLimit
                          THEN Len(unique) ELSE analysedAddressLimit)

\* addressTrades.reduce((sum, trade) => sum + trade.valueInUsd, 0)
RECURSIVE totalValue(_, _)
totalValue(smartTrades, address) ==
    IF smartTrades = <<>> THEN 0
    ELSE totalValue(Tail(smartTrades), address)
           + IF Head(smartTrades).address = address
             THEN Head(smartTrades).valueInUsd ELSE 0

\* totalValue >= minDepositUSD
totalValueMeetsMinDepositAlways(total) == total >= 0

totalValueMeetsMinDeposit(total) == total >= minDepositUSD

\* The upstream has no history, balance or snapshot of the recipient; the
\* token path is about to fetch the transfers, the smart-money search its
\* trades.
ScanInit ==
    /\ job = TRUE
    /\ cronTasks = 1
    /\ isRunning = TRUE
    /\ scans = [s \in ScanIds |-> FreeScan]
    /\ lastTick = "started"
    /\ runScanRejected = FALSE
    /\ apiKeyValid = TRUE
    /\ MergeIdle
    /\ GatewayIdle
    /\ CacheIdle
    /\ StartupIdle
    /\ WindowIdle
    /\ SearchIdle
    /\ ResolveIdle
    /\ chain = "ethereum"
    /\ transfers \in SeqsUpTo(DepositTransfers, MaxTransfers)
    /\ walletTransactions = <<>>
    /\ walletBalances = <<>>
    /\ walletHistorical = <<>>
    /\ vpc = "transfers"
    /\ significantIncomingTransfers = <<>>
    /\ verified = <<>>
    /\ current = [txFailed |-> FALSE, balFailed |-> FALSE, histFailed |-> FALSE]
    /\ freshWallets = <<>>

\* findFreshWallets throws before it reaches the token (token resolution
\* failed): its catch rethrows and the promise rejects.
findFreshWalletsThrows ==
    /\ vpc = "transfers"
    /\ regularOutcome = "pending"
    /\ regularOutcome' = "rejected"
    /\ vpc' = "done"
    /\ UNCHANGED <<significantIncomingTransfers, verified, current, freshWallets>>
    /\ UNCHANGED upstreamVars
    /\ UNCHANGED <<regularFound, regularWallets, smartOutcome, smartFound,
                   smartMoneyWallets, scanReturned, scanOutput, alerts, smartRun>>
    /\ UNCHANGED <<scannerVars, gatewayVars, cacheVars, resolveVars, startupVars,
                   windowVars, searchVars>>

\* findFreshWallets returns what the token path gathered, deduplicated and
\* sorted.
findFreshWalletsReturns ==
    /\ vpc = "done"
    /\ regularOutcome = "pending"
    /\ regularOutcome' = "fulfilled"
    /\ regularFound' = freshWallets
    /\ regularWallets' = SortByDepositDesc(ServiceRemoveDuplicateWallets(freshWallets))
    /\ UNCHANGED <<smartOutcome, smartFound, smartMoneyWallets, scanReturned,
                   scanOutput, alerts, smartRun>>
    /\ UNCHANGED nonMergeVars

\* getSmartMoneyDexTrades answers, or throws into the outer catch of
\* findFreshWalletsWithSmartMoney, which returns [].
getSmartMoneyDexTrades ==
    /\ smartRun.pc = "trades"
    /\ smartOutcome = "pending"
    /\ \/ /\ smartRun' = [smartRun EXCEPT !.pc = "failed"]
          /\ smartOutcome' = "fulfilled"
          /\ smartMoneyWallets' = <<>>
       \/ /\ \E smartTrades \in SeqsUpTo(SmartMoneyDexTradesResponse, MaxTrades) :
               smartRun' = [pc |-> IF smartTrades = <<>> THEN "done" ELSE "checking",
                            smartTrades |-> smartTrades, checked |-> 0]
          /\ UNCHANGED <<smartOutcome, smartMoneyWallets>>
    /\ UNCHANGED <<regularFound, regularOutcome, regularWallets, smartFound,
                   scanReturned, scanOutput, alerts>>
    /\ UNCHANGED nonMergeVars

\* One turn of the loop over the addresses: checkIfWalletWasPreviouslyEmpty
\* answers or throws into the catch of the loop body; a new wallet whose
\* trades add up to the minimum is pushed.
checkIfWalletWasPreviouslyEmpty ==
    /\ smartRun.pc = "checking"
    /\ LET addresses == analysedAddresses(smartRun.smartTrades)
           address == addresses[smartRun.checked + 1]
           total == totalValue(smartRun.smartTrades, address)
       IN  /\ \E outcome \in {"new", "notNew", "threw"} :
                smartFound' =
                    IF outcome = "new" /\ totalValueMeetsMinDeposit(total)
                    THEN Append(smartFound, [wallet |-> address,
                                             chain |-> "ethereum",
                                             initDepositUSD |-> total])
                    ELSE smartFound
           /\ smartRun' = [smartRun EXCEPT
                             !.checked = @ + 1,
                             !.pc = IF smartRun.checked + 1 = Len(addresses)
                                    THEN "done" ELSE "checking"]
    /\ UNCHANGED <<regularFound, regularOutcome, regularWallets, smartOutcome,
                   smartMoneyWallets, scanReturned, scanOutput, alerts>>
    /\ UNCHANGED nonMergeVars

\* findFreshWalletsWithSmartMoney returns freshWallets.
findFreshWalletsWithSmartMoneyReturns ==
    /\ smartRun.pc = "done"
    /\ smartOutcome = "pending"
    /\ smartOutcome' = "fulfilled"
    /\ smartMoneyWallets' = smartFound
    /\ UNCHANGED <<regularFound, regularOutcome, regularWallets, smartFound,
                   scanReturned, scanOutput, alerts, smartRun>>
    /\ UNCHANGED nonMergeVars

ScanNext ==
    \/ getTokenTransfers
    \/ getAddressTransactions
    \/ getAddressBalances
    \/ getAddressHistoricalBalances
    \/ findFreshWalletsThrows
    \/ findFreshWalletsReturns
    \/ getSmartMoneyDexTrades
    \/ checkIfWalletWasPreviouslyEmpty
    \/ findFreshWalletsWithSmartMoneyReturns
    \/ performScan
    \/ runScanLogsResult

ScanSpec == ScanInit /\ [][ScanNext]_vars

(***************************************************************************)
(* Properties of the scan orchestrator.                                    *)
(***************************************************************************)
\* C2: under the scheduled path (cron ticks and the initial scan of start())
\* at most one runScan body is executing in any reachable state; a tick that
\* fires while isRunning is true is skipped.
C2_AtMostOneScheduledScan == Cardinality(ScheduledBodies) <= 1

\* A tick was skipped while a scheduled scan is in progress.
C2_Witness == lastTick = "skipped" /\ Cardinality(ScheduledBodies) = 1 /\ isRunning

\* C3 (as claimed): a manual scan and a scheduled scan are never both
\* executing performScan.
C3_ManualSharesGuard == ~(ManualBodies # {} /\ ScheduledBodies # {})

\* C6: a scheduled scan that entered Running leaves isRunning FALSE when its
\* performScan completes, by return or by throw; runScan never rejects; and
\* a tick that fires when no scheduled scan is executing is not skipped, it
\* starts a new scan.
C6_BackToIdle ==
    [][ /\ \A s \in ScanIds : ScheduledScanReturns(s) => ~isRunning'
        /\ lastTick' = "failed" => ~isRunning'
        /\ ~runScanRejected'
        /\ (CronTick /\ ScheduledBodies = {}) => lastTick' \in {"started", "failed"}
      ]_vars

\* A scheduled scan started, ran and has returned: the orchestrator is Idle
\* again with its job still scheduled.
C6_Witness == job /\ lastTick = "started" /\ ~isRunning /\ ScheduledBodies = {}

(***************************************************************************)
(* Properties of performScan's merge.                                      *)
(***************************************************************************)
NoDuplicateKeys(s) == \A i, j \in 1..Len(s) : i # j => key(s[i]) # key(s[j])

\* C10: in the list a scan returns no two entries have the same
\* (wallet, chain) pair, whatever the two searches produced.
C10_OutputUnique == scanReturned => NoDuplicateKeys(scanOutput)

\* A scan returned whose two searches both fulfilled and, between them,
\* found the same (wallet, chain) twice.
C10_Witness ==
    /\ scanReturned
    /\ regularOutcome = "fulfilled"
    /\ ~NoDuplicateKeys(allWallets)
    /\ Len(scanOutput) < Len(allWallets)

\* The raw results of the searches of the scan that fulfilled.
foundInScan ==
    (IF regularOutcome = "fulfilled" THEN regularFound ELSE <<>>)
        \o (IF smartOutcome = "fulfilled" THEN smartFound ELSE <<>>)

\* C11 (as claimed): of the results of one scan that share a (wallet, chain)
\* pair, the output keeps one with the largest initDepositUSD, whatever the
\* order they were found in.
C11_LargestDepositKept ==
    scanReturned =>
        \A i \in 1..Len(foundInScan) :
            \E k \in 1..Len(scanOutput) :
                /\ key(scanOutput[k]) = key(foundInScan[i])
                /\ scanOutput[k].initDepositUSD >= foundInScan[i].initDepositUSD

\* C12: the list a scan returns is sorted by initDepositUSD, largest first.
C12_OutputSorted ==
    scanReturned =>
        \A k \in 1..(Len(scanOutput) - 1) :
            scanOutput[k].initDepositUSD >= scanOutput[k + 1].initDepositUSD

\* A scan returned two entries of different deposits that the searches had
\* handed over smallest first.
C12_Witness ==
    /\ scanReturned
    /\ Len(scanOutput) >= 2
    /\ Len(allWallets) >= 2
    /\ allWallets[1].initDepositUSD < allWallets[Len(allWallets)].initDepositUSD
    /\ scanOutput[1].initDepositUSD > scanOutput[Len(scanOutput)].initDepositUSD

(***************************************************************************)
(* Properties of the gateway.                                              *)
(***************************************************************************)
\* C1 (as claimed): whatever requests go through the gateway, first attempts
\* and retries, from one flow or from concurrent flows, no interval of
\* 1000 ms contains more than maxRequestsPerSecond actual dispatches and no
\* interval of 60000 ms more than maxRequestsPerMinute.  (The logs of actual
\* dispatch times hold the dispatches of the window that ends now.)
C1_WindowsRespected ==
    /\ Len(actualSecond) <= maxRequestsPerSecond
    /\ Len(actualMinute) <= maxRequestsPerMinute

\* C4 (as claimed): one logical request is dispatched at most retryAttempts
\* times, also when every attempt is answered by 429 or 5xx; after that the
\* last error is surfaced.
C4_DispatchesBounded == \A f \in Flows : flow[f].sent <= retryAttempts

\* C5 (as claimed): a 4xx response other than 429 is surfaced to the caller
\* at once and is never followed by another dispatch of the same request,
\* be it the answer to the first attempt or to a retry.
C5_ClientErrorSurfaced ==
    \A f \in Flows :
        /\ IsClientError(flow[f].lastStatus) =>
               (flow[f].pc = "idle" /\ flow[f].result = "error")
        /\ ~flow[f].resent

(***************************************************************************)
(* Properties of the freshness verification.                               *)
(***************************************************************************)
\* The i-th verified candidate: the transfer and what verification did.
CandidateAt(i) == significantIncomingTransfers[i]

AnyCallFailed(i) ==
    verified[i].txFailed \/ verified[i].balFailed \/ verified[i].histFailed

\* The recipient's history has a transaction strictly before the deposit in
\* which it received another token than the one under evaluation.
HasEarlierOtherToken(i) ==
    \E k \in 1..Len(walletTransactions) :
        /\ walletTransactions[k].blockTimestamp < CandidateAt(i).blockTimestamp
        /\ walletTransactions[k].received = "OTHER"

\* The recipient's history has no transaction before the deposit.
NoEarlierTransaction(i) ==
    \A k \in 1..Len(walletTransactions) :
        ~(walletTransactions[k].blockTimestamp < CandidateAt(i).blockTimestamp)

InFreshWallets(address) ==
    \E k \in 1..Len(freshWallets) : freshWallets[k].wallet = address.text

EntryOf(i) == [wallet |-> CandidateAt(i).toAddress.text,
               chain |-> chain,
               initDepositUSD |-> CandidateAt(i).valueUsd]

FreshVerdicts == {i \in 1..Len(verified) : verified[i].fresh}

\* C7 (as claimed): when an upstream call made while verifying a wallet
\* fails, the wallet is resolved as not fresh and is not in the output.
C7_FailureMeansNotFresh ==
    \A i \in 1..Len(verified) :
        AnyCallFailed(i) =>
            (~verified[i].fresh /\ ~InFreshWallets(CandidateAt(i).toAddress))

\* C8 (as claimed): a wallet whose history has a transaction strictly before
\* the deposit, receiving another token, is verified not fresh and the
\* output does not contain the wallet.
C8_PriorActivityKeepsWalletOut ==
    \A i \in 1..Len(verified) :
        HasEarlierOtherToken(i) =>
            (~verified[i].fresh /\ ~InFreshWallets(CandidateAt(i).toAddress))

\* C8 (amended): for such a deposit verification returns not fresh and the
\* deposit adds no entry to the result: the entries are exactly those of the
\* deposits verified fresh.
C8_PriorActivityNotFresh ==
    /\ \A i \in 1..Len(verified) : HasEarlierOtherToken(i) => ~verified[i].fresh
    /\ Len(freshWallets) = Cardinality(FreshVerdicts)
    /\ \A k \in 1..Len(freshWallets) :
          \E i \in FreshVerdicts : freshWallets[k] = EntryOf(i)

\* The run is over and a deposit whose history was fetched, with an earlier
\* transaction of another token in it, was verified not fresh.
C8_Witness ==
    /\ vpc = "done"
    /\ \E i \in 1..Len(verified) :
          HasEarlierOtherToken(i) /\ ~AnyCallFailed(i) /\ ~verified[i].fresh

\* The wallet's current balances hold no token other than the deposited one
\* (addresses compared without regard to case) worth more than $1.
HoldsNoOtherToken ==
    \A k \in 1..Len(walletBalances) :
        \/ walletBalances[k].tokenAddress = "0xaaa"
        \/ walletBalances[k].usdValue <= 1

\* None of the wallet's historical balance snapshots is worth more than $1.
NoHistoricalBalance ==
    \A k \in 1..Len(walletHistorical) : walletHistorical[k].usdValue <= 1

\* C9 (as claimed): a wallet with no transaction before the deposit, all
\* upstream calls succeeding, is verified fresh and the transfer yields the
\* entry {recipient, token chain, usdValue}.
C9_NoHistoryIsFresh ==
    \A i \in 1..Len(verified) :
        (NoEarlierTransaction(i) /\ ~AnyCallFailed(i)) =>
            (verified[i].fresh /\ \E k \in 1..Len(freshWallets) : freshWallets[k] = EntryOf(i))

\* C9 (amended): the same, for a wallet that in addition holds no other
\* token worth more than $1 and has no historical balance worth more than $1.
C9_CleanWalletIsFresh ==
    \A i \in 1..Len(verified) :
        ( /\ NoEarlierTransaction(i)
          /\ ~AnyCallFailed(i)
          /\ HoldsNoOtherToken
          /\ NoHistoricalBalance ) =>
            (verified[i].fresh /\ \E k \in 1..Len(freshWallets) : freshWallets[k] = EntryOf(i))

\* The run is over and such a wallet, holding the deposited token only, was
\* verified fresh with all calls answered.
C9_Witness ==
    /\ vpc = "done"
    /\ \E k \in 1..Len(walletBalances) : walletBalances[k].usdValue > 1
    /\ walletHistorical # <<>>
    /\ HoldsNoOtherToken
    /\ NoHistoricalBalance
    /\ \E i \in 1..Len(verified) :
          /\ NoEarlierTransaction(i)
          /\ ~AnyCallFailed(i)
          /\ verified[i].fresh
          /\ freshWallets[Len(freshWallets)] = EntryOf(i)

(***************************************************************************)
(* Properties of the candidate filter.                                     *)
(***************************************************************************)
\* The transfers were fetched and filtered.
Filtered == vpc # "transfers"

\* The transfer was kept by the filter: verification runs for it.
IsCandidate(transfer) ==
    \E k \in 1..Len(significantIncomingTransfers) :
        significantIncomingTransfers[k] = transfer

\* C13: a transfer whose valueUsd is below minDepositUSD, or missing, never
\* becomes a candidate: verification runs for candidates only, and no output
\* entry carries a deposit below minDepositUSD.
C13_SmallDepositsNeverCandidates ==
    /\ \A i \in 1..Len(transfers) :
          (transfers[i].valueUsd = MissingValue \/ transfers[i].valueUsd < minDepositUSD) =>
              ~IsCandidate(transfers[i])
    /\ Len(verified) <= Len(significantIncomingTransfers)
    /\ \A k \in 1..Len(freshWallets) : freshWallets[k].initDepositUSD >= minDepositUSD

\* The run is over: of two transfers to the same private wallet, one too
\* small or without value and one large enough, only the large one was
\* verified, and it is in the output.
C13_Witness ==
    /\ vpc = "done"
    /\ Len(transfers) = 2
    /\ transfers[1].toAddress = transfers[2].toAddress
    /\ isValidPrivateWallet(transfers[1].toAddress)
    /\ transfers[1].valueUsd < minDepositUSD
    /\ transfers[2].valueUsd = 5000
    /\ Len(verified) = 1
    /\ Len(freshWallets) = 1

\* C14 (as claimed): only transfers of type transfer, swap or simpleSwap
\* become candidates; a multicall or transferAndMulticall never does.
C14_AggregateTypesNeverCandidates ==
    \A k \in 1..Len(significantIncomingTransfers) :
        significantIncomingTransfers[k].txType \in {"transfer", "swap", "simpleSwap"}

\* C15 (as claimed): a transfer whose recipient carries a label other than
\* the unlabeled-address marker never becomes a candidate.
C15_LabelledRecipientsNeverCandidates ==
    \A k \in 1..Len(significantIncomingTransfers) :
        significantIncomingTransfers[k].toLabel = UnlabeledMarker

\* The two transfers differ in their sender and in nothing else.
DifferOnlyInSender(a, b) ==
    /\ a # b
    /\ [a EXCEPT !.fromAddress = b.fromAddress, !.fromLabel = b.fromLabel] = b

\* C16: two transfers that differ only in fromAddress and fromLabel are
\* both candidates or both rejected.
C16_SenderIrrelevant ==
    Filtered =>
        \A i, j \in 1..Len(transfers) :
            DifferOnlyInSender(transfers[i], transfers[j]) =>
                (IsCandidate(transfers[i]) <=> IsCandidate(transfers[j]))

\* The transfers were filtered: of two that differ only in the sender, one
\* sent by an exchange, both are candidates.
C16_Witness ==
    /\ Filtered
    /\ Len(transfers) = 2
    /\ DifferOnlyInSender(transfers[1], transfers[2])
    /\ transfers[1].fromLabel = "Binance"
    /\ Len(significantIncomingTransfers) = 2

(***************************************************************************)
(* Properties of the cache.                                                *)
(***************************************************************************)
\* The getOrSet call of flow p returns in this step, after its factory.
MissReturns(p) == caller[p].pc = "factory" /\ caller'[p].pc = "idle"

\* The entry a returned miss of flow p is to leave under its key.
EntryOfMiss(call) ==
    [value |-> call.result, expiresAt |-> call.returnedAt + call.ttl]

\* C17 (as claimed): a getOrSet that misses invokes the factory once and
\* leaves its result stored when it returns, one that hits invokes it not at
\* all, and a get or getOrSet of the key issued after a completed miss and
\* before the TTL ran out returns that result without recomputation.
C17_ComputeOncePerMiss ==
    [][ \A p \in Callers :
          /\ caller'[p].op = "getOrSet" =>
                caller'[p].factoryCalls = (IF caller'[p].missed THEN 1 ELSE 0)
          /\ MissReturns(p) => cache'[caller[p].key] = EntryOfMiss(caller'[p])
          /\ (caller'[p].pc = "idle" /\ caller'[p].sawMiss # NoMiss) =>
                /\ caller'[p].factoryCalls = 0
                /\ caller'[p].result = caller'[p].sawMiss.value
      ]_vars

\* C17 (amended): the same when the factory yields a value other than
\* undefined; when it yields undefined or throws, getOrSet returns undefined
\* and leaves the cache as it was.
C17_ComputeOncePerDefinedMiss ==
    [][ \A p \in Callers :
          /\ caller'[p].op = "getOrSet" =>
                caller'[p].factoryCalls = (IF caller'[p].missed THEN 1 ELSE 0)
          /\ MissReturns(p) =>
                IF caller'[p].produced \in Values
                THEN /\ caller'[p].result = caller'[p].produced
                     /\ cache'[caller[p].key] = EntryOfMiss(caller'[p])
                ELSE /\ caller'[p].result = "undefined"
                     /\ cache' = cache
          /\ ( /\ caller'[p].pc = "idle"
               /\ caller'[p].sawMiss # NoMiss
               /\ caller'[p].sawMiss.value # "undefined" ) =>
                /\ caller'[p].factoryCalls = 0
                /\ caller'[p].result = caller'[p].sawMiss.value
      ]_vars

\* A getOrSet issued a second or more after a miss on the key had stored a
\* value, within its TTL, returned that value without calling its factory.
C17_Witness ==
    \E p \in Callers :
        /\ caller[p].op = "getOrSet"
        /\ caller[p].pc = "idle"
        /\ ~caller[p].missed
        /\ caller[p].sawMiss # NoMiss
        /\ caller[p].result \in Values
        /\ caller[p].returnedAt >= 1

\* Flow p returns from a getOrSet that missed together with the getOrSet of
\* flow q on the same key, which has returned already.
LastOfRaceReturns(p, q) ==
    /\ p # q
    /\ MissReturns(p)
    /\ caller[p].racedWith = q
    /\ caller[q].racedWith = p
    /\ caller[q].pc = "idle"

\* A step changes the entry of a key only for a call on that key.
OnlyOwnKeyChanges ==
    \A k \in Keys :
        cache'[k] # cache[k] =>
            \E p \in Callers : caller'[p] # caller[p] /\ caller'[p].key = k

C19_ResolutionMemoized ==
    \A n \in 2..Len(callsMade) : callsMade[n] = 0

\* The latest findTokensForTickers call returned.
Resolved == rpc = "idle" /\ resolves > 0

\* The token's symbol is the ticker, in whatever case.
MatchesTicker(token) == token.tokenSymbol \in {"tok", "TOK"}

\* C20: a failed screener call for one chain does not end the resolve: every
\* chain passed is queried, in order, and the mapping returned holds every
\* matching token of every chain whose call succeeded.
C20_FailedChainSkipped ==
    Resolved =>
        /\ Len(queried) = Len(chainsArg)
        /\ \A i \in 1..Len(queried) :
              /\ queried[i].chain = chainsArg[i]
              /\ queried[i].ok =>
                    \A j \in 1..Len(screener[queried[i].chain]) :
                        LET token == screener[queried[i].chain][j]
                        IN  MatchesTicker(token) =>
                                \E k \in 1..Len(returned["tok"]) :
                                    returned["tok"][k] =
                                        [address |-> token.tokenAddressHex,
                                         chain |-> token.chain,
                                         symbol |-> token.tokenSymbol]

\* A resolve returned whose first screener call failed and whose second
\* succeeded and listed a matching token, which is in the mapping.
C20_Witness ==
    /\ Resolved
    /\ Len(queried) = 2
    /\ ~queried[1].ok
    /\ queried[2].ok
    /\ \E j \in 1..Len(screener[queried[2].chain]) :
          MatchesTicker(screener[queried[2].chain][j])
    /\ returned["tok"] # <<>>

\* Every transaction of the recipient before the i-th deposit received the
\* token under evaluation only, and there is such a transaction.
OnlySameSymbolBefore(i) ==
    /\ \E k \in 1..Len(walletTransactions) :
          walletTransactions[k].blockTimestamp < CandidateAt(i).blockTimestamp
    /\ \A k \in 1..Len(walletTransactions) :
          walletTransactions[k].blockTimestamp < CandidateAt(i).blockTimestamp
              => walletTransactions[k].received = "TOK"

\* C29 (as claimed): a transaction before the deposit that received only the
\* token under evaluation does not disqualify the wallet: a wallet all of
\* whose earlier transactions are of that kind, with every call answered and
\* nothing else held now or before, is verified fresh.
C29_SameSymbolTrickleIgnored ==
    \A i \in 1..Len(verified) :
        ( /\ OnlySameSymbolBefore(i)
          /\ ~AnyCallFailed(i)
          /\ HoldsNoOtherToken
          /\ NoHistoricalBalance ) => verified[i].fresh

(***************************************************************************)
(* Properties of the gateway's retries and of its callers.                 *)
(***************************************************************************)
\* C27 (as claimed): for a logical request that keeps failing with 429 or
\* 5xx, the wait before its k-th retry is 2^k seconds.  (A flow in backoff
\* after k dispatches is waiting for its k-th retry.)
C27_BackoffDoubles ==
    \A f \in Flows :
        flow[f].pc = "backoff" => flow[f].waitTime = Pow2(flow[f].sent) * 1000

\* C28 (as claimed): a request that times out (no response) is retried under
\* the retry policy: its error reaches the caller only after the attempt
\* ceiling is exhausted, that is, after retryAttempts dispatches.
C28_TimeoutRetried ==
    \A f \in Flows :
        (flow[f].pc = "idle" /\ flow[f].result = "error" /\ flow[f].lastStatus = 0)
            => flow[f].sent >= retryAttempts

\* A request of the flow is waiting in the rate limiter, in flight, or
\* waiting for a retry.
InProgress(f) == flow[f].pc # "idle"

\* C24 (as claimed): within one scan there is a single flow of upstream
\* calls: at no time are requests of the scan's two searches in progress at
\* once.
C24_SingleFlow ==
    ~(InProgress("regular") /\ InProgress("smartMoney"))

(***************************************************************************)
(* Properties of the end of a scheduled scan.                              *)
(***************************************************************************)
\* An alert for the wallet was sent through the Notifier.
Forwarded(w) ==
    \E k \in 1..Len(alerts) :
        alerts[k].walletAddress = w.wallet /\ alerts[k].chain = w.chain

\* C25 (as claimed): once a scan computed its merged and ranked result and
\* the orchestrator is back to Idle, every FreshWallet of the result was
\* forwarded to the Notifier.
C25_ResultForwarded ==
    (scanReturned /\ ~isRunning) =>
        \A i \in 1..Len(scanOutput) : Forwarded(scanOutput[i])

(***************************************************************************)
(* Properties of the process start and of the scan window.                 *)
(***************************************************************************)
\* A required setting is absent, INTERVAL_SECONDS is below 60, or the API
\* key is one validateApiKey rejects.
ConfigurationInvalid ==
    ~configSchemaAccepts(env) \/ ~validateApiKey(env.NANSEN_API_KEY)

\* C26 (as claimed): with a missing or invalid configuration startup fails
\* and the scanner is never started: no job is scheduled and no runScan was
\* ever called.
C26_InvalidConfigurationNeverScans ==
    ConfigurationInvalid =>
        (app # "started" /\ ~job /\ lastTick = "none")

C23_WindowCoversInterval ==
    \A i \in 1..Len(windows) :
        windows[i].to - windows[i].from >= env.INTERVAL_SECONDS + 1

(***************************************************************************)
(* Properties of the token search.                                         *)
(***************************************************************************)
\* The scan output has an entry for the wallet on the chain.
PresentInOutput(w) ==
    \E j \in 1..Len(searchOutput) : key(searchOutput[j]) = key(w)

\* An upstream call failed while some token was processed.
SomeTokenFailed == \E i \in 1..Len(tokenResults) : tokenResults[i].failed

\* C21: a failed upstream request while one resolved token is processed does
\* not abort the scan: every resolved token is processed, in order, and the
\* fresh wallets found for each of them are in the scan output.
C21_FailedTokenIsolated ==
    (spc = "done" /\ SomeTokenFailed) =>
        /\ Len(tokenResults) = Len(filteredTokens)
        /\ \A i \in 1..Len(tokenResults) :
              /\ tokenResults[i].token = i
              /\ \A k \in 1..Len(tokenResults[i].freshWallets) :
                    PresentInOutput(tokenResults[i].freshWallets[k])

\* The scan returned; a call failed for the first token and a fresh wallet
\* found for the second token is in the output.
C21_Witness ==
    /\ spc = "done"
    /\ Len(tokenResults) >= 2
    /\ tokenResults[1].failed
    /\ tokenResults[2].freshWallets # <<>>
    /\ PresentInOutput(tokenResults[2].freshWallets[1])

\* The pagination loop of the current token was left by its break.
Stopped ==
    /\ spc # "paging"
    /\ tokenRun.requested # <<>>
    /\ Len(tokenRun.answers) = Len(tokenRun.requested)

\* C30: for one token the pages are requested in the order 1, 2, 3, ..., each
\* once, with page size 500; the loop goes on after full pages only and
\* stops after the first page shorter than 500; what is filtered is the
\* concatenation of the pages fetched.
C30_PagesInOrderUntilShort ==
    /\ \A i \in 1..Len(tokenRun.requested) : tokenRun.requested[i] = i
    /\ \A i \in 1..Len(tokenRun.answers) : tokenRun.answers[i].page = i
    /\ \A i \in 1..(Len(tokenRun.answers) - 1) :
          tokenRun.answers[i].length = recordsPerPage
    /\ spc = "paging" =>
          \A i \in 1..Len(tokenRun.answers) :
              tokenRun.answers[i].length = recordsPerPage
    /\ Stopped =>
          /\ tokenRun.answers[Len(tokenRun.answers)].length < recordsPerPage
          /\ tokenRun.filteredFrom = tokenRun.answers
          /\ tokenRun.significant =
                SelectSeq(Listed(tokenRun.answers), IsSignificantIncoming)

\* A token whose transfers came in three pages, two full and one short, the
\* first and the last with a significant transfer, was filtered.
C30_Witness ==
    /\ Stopped
    /\ tokenRun.requested = <<1, 2, 3>>
    /\ tokenRun.answers[1].listed # <<>>
    /\ tokenRun.answers[3].listed # <<>>
    /\ Len(tokenRun.significant) = 2

(***************************************************************************)
(* Properties of the history check of the verification.                    *)
(***************************************************************************)
\* The verdict getAddressTransactions just concluded with, if it did.
HistoryConcluded ==
    /\ vpc = "transactions"
    /\ Len(verified') = Len(verified) + 1

\* C31: only transactions strictly earlier than the deposit count as prior
\* activity: when the history check itself (private wallet, call answered)
\* resolves a wallet as not fresh, the fetched history holds a transaction
\* strictly earlier than the deposit; one at the deposit's own timestamp or
\* later never does it.
C31_OnlyStrictlyEarlierCounts ==
    [][ ( /\ HistoryConcluded
          /\ isValidPrivateWallet(Candidate.toAddress)
          /\ ~verified'[Len(verified')].txFailed )
        => \E k \in 1..Len(walletTransactions) :
              walletTransactions[k].blockTimestamp < Candidate.blockTimestamp ]_vars

\* The history of a candidate was fetched, it holds a transaction at the
\* deposit's timestamp and none earlier, and the check let the wallet pass on
\* to the balances.
C31_Witness ==
    /\ vpc = "balances"
    /\ \E k \in 1..Len(walletTransactions) :
          walletTransactions[k].blockTimestamp = Candidate.blockTimestamp
    /\ \A k \in 1..Len(walletTransactions) :
          walletTransactions[k].blockTimestamp >= Candidate.blockTimestamp

\* C32 (as claimed): verification examines the wallet's full history: with
\* all calls answered, a transaction strictly before the deposit in which the
\* wallet received another token makes the wallet not fresh wherever the
\* upstream lists it, past the first page of records included.
C32_FullHistoryExamined ==
    \A i \in 1..Len(verified) :
        (HasEarlierOtherToken(i) /\ ~AnyCallFailed(i)) => ~verified[i].fresh

(***************************************************************************)
(* Properties of the rate limiter's logs.                                  *)
(***************************************************************************)
\* The flow's request leaves the rate limiter at the end of a sleep.
LeavesAfterWait(f) ==
    /\ flow[f].pc \in {"sleepSecond", "sleepMinute"}
    /\ flow'[f].pc = "inflight"

\* C33 (as claimed): the timestamp appended to both logs for a dispatch is
\* the time the request leaves the rate limiter: when the caller was
\* suspended, it is not earlier than the end of that wait.
C33_RecordedAfterWait ==
    [][ \A f \in Flows :
          LeavesAfterWait(f) =>
            /\ Last(requestTimes') >= flow[f].wakeAt
            /\ Last(minuteRequestTimes') >= flow[f].wakeAt ]_vars

\* The flow's request is dispatched to the upstream in this step.
Dispatched(f) == flow[f].pc # "inflight" /\ flow'[f].pc = "inflight"

\* The step appended the time the flow read to the log, after the cleaning
\* of enforceRateLimit or without it.
AppendedTo(log, log2, f, window) ==
    \/ log2 = Append(log, flow'[f].now)
    \/ log2 = Append(FilterRecent(log, clock, window), flow'[f].now)

\* C34: every upstream dispatch, first attempt or retry, comes out of the
\* rate limiter: it appends one timestamp to both logs, and a dispatch
\* without a sleep happens only when both windows have room.
C34_RetryPassesLimiter ==
    [][ \A f \in Flows :
          Dispatched(f) =>
            /\ flow[f].pc \in {"limiter", "sleepSecond", "sleepMinute"}
            /\ AppendedTo(requestTimes, requestTimes', f, SecondWindow)
            /\ AppendedTo(minuteRequestTimes, minuteRequestTimes', f, MinuteWindow)
            /\ flow[f].pc = "limiter" =>
                 /\ Len(FilterRecent(requestTimes, clock, SecondWindow)) < maxRequestsPerSecond
                 /\ Len(FilterRecent(minuteRequestTimes, clock, MinuteWindow)) < maxRequestsPerMinute ]_vars

\* A retry is in flight: its dispatch went through the limiter after the
\* backoff and was logged after the first attempt's.
C34_Witness ==
    \E f \in Flows :
        /\ flow[f].pc = "inflight"
        /\ flow[f].stack # <<>>
        /\ flow[f].sent >= 2
        /\ Len(minuteRequestTimes) >= 2
        /\ Last(minuteRequestTimes) = flow[f].now

(***************************************************************************)
(* Properties of start, stop and the skipped ticks.                        *)
(***************************************************************************)
\* This step is a cron tick that runScan skipped.
TickSkipped == job /\ job' /\ lastTick # "skipped" /\ lastTick' = "skipped"

\* C35: a tick skipped because a scan is running leaves the orchestrator as
\* it was: isRunning stays true, the running scan stays the one scheduled
\* scan, nothing is released.
C35_SkippedTickChangesNothing ==
    [][ TickSkipped =>
          /\ isRunning /\ isRunning'
          /\ scans' = scans
          /\ runScanRejected' = runScanRejected
          /\ Cardinality(ScheduledBodies) = 1 ]_vars

\* A tick was skipped and the scan it ran into is still running.
C35_Witness ==
    /\ job
    /\ lastTick = "skipped"
    /\ isRunning
    /\ ScheduledBodies # {}

\* C36: start() is idempotent while the scanner is active: the scanner has a
\* job exactly when one cron task is scheduled, and never a second task.
C36_AtMostOneJob ==
    /\ cronTasks <= 1
    /\ job <=> cronTasks = 1

\* The scanner is active, its initial scan is over and no tick came since:
\* start() called here is turned back by its guard.
C36_Witness ==
    /\ job
    /\ cronTasks = 1
    /\ ~isRunning
    /\ lastTick = "started"

\* C37: stop() leaves the running scan and isRunning alone and the scanner
\* reports isActive = false with no cron task left; while the scanner stays
\* stopped no scheduled scan is started and no runScan is called; the scan
\* that was running ends with isRunning set to false.
C37_StopLetsScanFinish ==
    [][ /\ (job /\ ~job') =>
             /\ scans' = scans
             /\ isRunning' = isRunning
             /\ ~getStatus'.isActive
             /\ cronTasks' = 0
        /\ (~job /\ ~job') =>
             /\ ScheduledBodies' \subseteq ScheduledBodies
             /\ lastTick' = lastTick
        /\ (~job /\ isRunning /\ ScheduledBodies' # ScheduledBodies) => ~isRunning' ]_vars

\* The scanner was stopped during a scan; the scan went on and both its
\* searches have settled.
C37_Witness ==
    /\ ~getStatus.isActive
    /\ getStatus.isRunning
    /\ \E s \in ScheduledBodies : AllSettled(s)

(***************************************************************************)
(* Properties of a scan's output.                                          *)
(***************************************************************************)
\* C38: every entry of a scan's output has initDepositUSD >= minDepositUSD,
\* whether it came from the token-transfer path or the smart-money path.
C38_OutputAboveMinimum ==
    \A i \in 1..Len(scanOutput) : scanOutput[i].initDepositUSD >= minDepositUSD

\* The scan returned an entry of each path: a $5000 deposit of the token
\* path and an address whose two $600 trades add up to $1200; a transfer
\* below the minimum and an address whose trades stay below it were
\* analysed too.
C38_Witness ==
    /\ scanReturned
    /\ \E i \in 1..Len(scanOutput) : scanOutput[i].initDepositUSD = 1200
    /\ \E i \in 1..Len(scanOutput) :
          /\ scanOutput[i].wallet = "0xbeef00000000000000000000000000000000cafe"
          /\ scanOutput[i].initDepositUSD = 5000
    /\ Len(freshWallets) > 0
    /\ \E k \in 1..Len(transfers) : usdValueOf(transfers[k]) < minDepositUSD
    /\ smartRun.checked = Len(analysedAddresses(smartRun.smartTrades))
    /\ \E k \in 1..Len(smartRun.smartTrades) :
          totalValue(smartRun.smartTrades, smartRun.smartTrades[k].address) < minDepositUSD

(***************************************************************************)
(* Properties of a getOrSet whose factory yields nothing.                  *)
(***************************************************************************)
\* The getOrSet of flow p returns in this step and its factory threw or
\* returned undefined.
FailedMissReturns(p) == MissReturns(p) /\ caller'[p].produced \notin Values

\* Flow p made a getOrSet when the latest completed miss on the key had
\* yielded nothing.
CalledAfterFailedMiss(call) ==
    call.op = "getOrSet" /\ call.sawMiss.value = "undefined"

\* C39 (as claimed): a getOrSet whose factory throws or returns undefined
\* returns undefined, stores nothing and leaves every entry as it was, so the
\* next getOrSet on the key invokes its factory again.
C39_FailedFactoryRecomputed ==
    [][ \A p \in Callers :
          /\ FailedMissReturns(p) =>
                /\ caller'[p].result = "undefined"
                /\ cache' = cache
          /\ CalledAfterFailedMiss(caller'[p]) => caller'[p].missed
      ]_vars

\* C39 (amended): the same, and the next getOrSet on the key invokes its
\* factory again unless it finds a value that another call stored under the
\* key, which it returns.
C39_FailedFactoryStoresNothing ==
    [][ \A p \in Callers :
          /\ FailedMissReturns(p) =>
                /\ caller'[p].result = "undefined"
                /\ cache' = cache
          /\ CalledAfterFailedMiss(caller'[p]) =>
                \/ caller'[p].missed /\ caller'[p].factoryCalls = 1
                \/ caller'[p].result \in Values
      ]_vars

\* A getOrSet whose factory threw returned undefined with a value of another
\* call stored under another key, and a later getOrSet on its key invoked
\* its factory again.
C39_Witness ==
    \E p, q \in Callers :
        /\ caller[q].produced = "threw"
        /\ caller[q].result = "undefined"
        /\ caller[q].pc = "idle"
        /\ \E k \in Keys : k # caller[q].key /\ cache[k] # Absent
        /\ cache[caller[q].key] = Absent
        /\ CalledAfterFailedMiss(caller[p])
        /\ caller[p].key = caller[q].key
        /\ caller[p].missed

(***************************************************************************)
(* Properties of performScan when a search fails.                          *)
(***************************************************************************)
\* What the token search handed over, if it succeeded.
RegularSucceeded == IF regularOutcome = "fulfilled" THEN regularWallets ELSE <<>>

\* What the smart-money search gathered, if its call for the trades did not
\* fail.
SmartSucceeded == IF smartRun.pc # "failed" THEN smartFound ELSE <<>>

IsEntryOf(w, s) == \E i \in 1..Len(s) : s[i] = w

HasKeyOf(w, s) == \E i \in 1..Len(s) : key(s[i]) = key(w)

\* C40: the failure of one search does not discard the other's results: the
\* output holds every (wallet, chain) a search that succeeded found, nothing
\* but entries of those searches, each pair once, largest deposit first; it
\* is empty when both searches fail.
C40_OneFailureKeepsTheOther ==
    scanReturned =>
        /\ \A i \in 1..Len(RegularSucceeded) : HasKeyOf(RegularSucceeded[i], scanOutput)
        /\ \A i \in 1..Len(SmartSucceeded) : HasKeyOf(SmartSucceeded[i], scanOutput)
        /\ \A k \in 1..Len(scanOutput) :
              \/ IsEntryOf(scanOutput[k], RegularSucceeded)
              \/ IsEntryOf(scanOutput[k], SmartSucceeded)
        /\ NoDuplicateKeys(scanOutput)
        /\ \A k \in 1..(Len(scanOutput) - 1) :
              scanOutput[k].initDepositUSD >= scanOutput[k + 1].initDepositUSD
        /\ (regularOutcome = "rejected" /\ smartRun.pc = "failed") => scanOutput = <<>>

\* The token search rejected and the scan returned the two wallets the
\* smart-money search found.
C40_Witness ==
    /\ scanReturned
    /\ regularOutcome = "rejected"
    /\ Len(smartFound) = 2
    /\ Len(scanOutput) = 2

====
